---- MODULE Spec2Model ----
(***************************************************************************)
(* Model of the Phase 6A/6B video intelligence pipeline:                   *)
(*   src/main.py                                   (startup, recovery)     *)
(*   src/app/vision/video_intelligence_processor.py (orchestrator)         *)
(*   src/app/vision/frame_sampler.py               (frame source)          *)
(*   src/app/storage/repository.py, models.py      (status / rows)         *)
(*   src/app/detection/event_generator.py          (event synthesis)       *)
(*   src/app/detection/object_indexer.py           (embedding rows)        *)
(*   src/app/detection/attribute_processor.py      (enrichment)            *)
(*                                                                         *)
(* Times are whole seconds, confidences whole percents.                    *)
(***************************************************************************)
EXTENDS Integers, Sequences, FiniteSets, TLC

\* ------------------------------------------------------------------------
\* Bounds of the model
\* ------------------------------------------------------------------------
MaxGenSecond == 3      \* timestamps offered to EventGenerator.generate: 0..MaxGenSecond
MaxGenTracks == 2      \* size of the track map offered to EventGenerator.generate
MaxRuns == 3           \* process starts (main() invocations) in one behaviour
MaxStream == 3         \* detections in a stream fed to _update_track_state
MaxIndexOps == 2       \* index operations in one behaviour of the direct index calls
MaxFaults == 1         \* disturbances in one behaviour: failures of a service, a write or a
                       \* file, deliveries of SIGTERM / SIGINT, abrupt deaths of the process

\* ------------------------------------------------------------------------
\* Values
\* ------------------------------------------------------------------------
NoCrop == <<>>                          \* Python None for a crop path
EventTypes == {"entry", "dwell", "exit"}
None == "None"                          \* Python None

\* settings (src/app/core/config.py)
DwellThresholdSeconds == 10
ExitGapSeconds == 3
CropMinConfidence == 50
EmbedModelSetting == "nomic-embed-text"     \* the value of EMBED_MODEL in the pipeline runs
EmbedModels == {"nomic-embed-text", "mxbai-embed-large"}   \* values EMBED_MODEL may take
EMBEDDING_MODEL == "nomic-embed-text"       \* embedder.py line 5: the model embed() asks for

\* last_error texts
ErrStale == "Recovered from stale running state on startup"
ErrSignal == "Interrupted by shutdown signal"
ErrMidVideo == "Interrupted mid-video by shutdown"
ErrException == "str(e)"

VARIABLES
    \* --- direct calls of EventGenerator.generate (SpecGen) ---
    g_pc,          \* "off" | "input" | "done": position of a direct generate() call
    g_states,      \* track_states argument: dict in insertion order, as a sequence
    g_duration,    \* video_duration argument
    g_dwell,       \* EventGenerator.dwell_threshold
    g_gap,         \* EventGenerator.exit_gap
    g_events,      \* the list generate() returned
    \* --- direct calls of the attribute extractors (SpecExtract) ---
    x_pc,          \* "off" | "input" | "done": position of a direct extract() call
    x_class,       \* which extractor: a vehicle class or "person"
    x_crop,        \* what cv2.imread makes of the crop file
    x_reply,       \* what the vision service answers
    x_result,      \* what extract() returned, or the exception it raised
    \* --- direct calls of ObjectIndexer (SpecIndex) ---
    i_pc,          \* "off" | "ready": whether direct index calls are being made
    i_ops,         \* index operations called so far
    i_calls,       \* calls of OllamaEmbedder.embed made so far
    i_last,        \* the last operation: its name, its record, what it returned
    \* --- direct calls of _update_track_state on a detection stream (SpecTrack) ---
    t_pc,          \* "off" | "feeding" | "generated" | "replayed"
    t_stream,      \* the detections fed so far, each with its timestamp and crop path
    t_states,      \* the track_states dict built from them
    t_events,      \* what generate() returned for t_states
    t_replay,      \* aggregates and events of a second pass over the same stream
    \* --- direct calls of get_frame_quadrant (SpecQuadrant) ---
    q_pc,          \* "off" | "input" | "done"
    q_box,         \* <<x1, y1, x2, y2>> in pixels
    q_frame,       \* <<frame_width, frame_height>>
    q_label,       \* the label returned
    \* --- configuration ---
    embed_model,   \* settings.embed_model (EMBED_MODEL)
    \* --- the process ---
    pc,                  \* position of the main thread ("off" when no pipeline is modelled)
    run_no,              \* number of process starts so far
    video_files,         \* sorted(os.listdir(...)) filtered on .mp4
    video_idx,           \* position of run()'s for loop in video_files
    shutdown_requested,  \* self._shutdown_requested
    current_video,       \* self._current_video (self._current_db is set and cleared with it)
    session_ok,          \* the sqlalchemy Session of the call is active: no flush or commit
                         \* on it has raised (src never calls rollback())
    \* --- relational store ---
    status,              \* processing_status: video -> row | NoRow
    detected_objects,    \* detected_objects rows in insertion order, each with its embedding row
    track_events,        \* track_events rows in insertion order, each with its embedding row
    \* --- locals of _process_video / AttributeProcessor.run ---
    sampler_pos,         \* frames the FrameSampler has yielded
    track_states,        \* dict track_id -> TrackState, in insertion order
    last_second,
    frame_dets,          \* detections of the current frame still to be processed
    saved_obj,           \* index of the row save_detected_object / save_track_event returned
    generated_events,    \* generated events still to be persisted
    attr_mode,           \* who called AttributeProcessor.run: "full" | "6b_only" | None
    attr_queue,          \* entry events still to be visited by AttributeProcessor.run
    attributed_count,
    \* --- environment ---
    has_total_frames,    \* whether the FrameSampler object has a total_frames attribute
    faults_left,         \* disturbances the environment may still inject
    \* --- history (not program state) ---
    h_recovered,         \* videos recover_stale_jobs moved to failed in this process
    h_reset,             \* videos whose status row an operator deleted since their last call
    tracker_ids,         \* track ids held by the detector's tracker session (ByteTrack state)
    h_run                \* per-run record of the current _process_video call

genvars == <<g_pc, g_states, g_duration, g_dwell, g_gap, g_events>>
extvars == <<x_pc, x_class, x_crop, x_reply, x_result>>
idxvars == <<i_pc, i_ops, i_calls, i_last>>
trkvars == <<t_pc, t_stream, t_states, t_events, t_replay>>
quadvars == <<q_pc, q_box, q_frame, q_label>>

\* ------------------------------------------------------------------------
\* event_generator.py
\* ------------------------------------------------------------------------

\* TrackState dataclass
TrackState(tid, cls, first, last, count, bsec, bconf, bcrop, secs) ==
    [track_id |-> tid, object_class |-> cls, first_seen |-> first,
     last_seen |-> last, frame_count |-> count, best_second |-> bsec,
     best_confidence |-> bconf, best_crop_path |-> bcrop, all_seconds |-> secs]

\* _build_entry_rag_text / _build_dwell_rag_text / _build_exit_rag_text:
\* a template name plus the fields the template interpolates.
BuildEntryRagText(state, duration) ==
    <<"appeared", state.object_class, state.track_id, state.first_seen,
      state.last_seen, duration, state.best_confidence>>

BuildDwellRagText(state, duration) ==
    <<"loitered", state.object_class, state.track_id, state.first_seen,
      state.last_seen, duration>>

BuildExitRagText(state, duration) ==
    <<"left", state.object_class, state.track_id, state.last_seen,
      duration, state.first_seen>>

\* GeneratedEvent dataclass, filled as generate() fills it
GeneratedEvent(state, type, duration, text) ==
    [track_id |-> state.track_id, object_class |-> state.object_class,
     event_type |-> type,
     first_seen_second |-> state.first_seen,
     last_seen_second |-> state.last_seen,
     duration_seconds |-> duration,
     best_frame_second |-> state.best_second,
     best_crop_path |-> state.best_crop_path,
     best_confidence |-> state.best_confidence,
     rag_text |-> text]

\* EventsOfTrack with the two comparisons swapped: dwell on >, exit on >=
EventsOfTrack_StrictDwell(state, video_duration, dwell_threshold, exit_gap) ==
    LET duration == state.last_seen - state.first_seen
    IN  <<GeneratedEvent(state, "entry", duration, BuildEntryRagText(state, duration))>>
        \o (IF duration > dwell_threshold
            THEN <<GeneratedEvent(state, "dwell", duration, BuildDwellRagText(state, duration))>>
            ELSE <<>>)
        \o (IF (video_duration - state.last_seen) >= exit_gap
            THEN <<GeneratedEvent(state, "exit", duration, BuildExitRagText(state, duration))>>
            ELSE <<>>)

\* EventsOfTrack with the dwell measured from first_seen to the end of the video
EventsOfTrack_DwellToVideoEnd(state, video_duration, dwell_threshold, exit_gap) ==
    LET duration == state.last_seen - state.first_seen
    IN  <<GeneratedEvent(state, "entry", duration, BuildEntryRagText(state, duration))>>
        \o (IF video_duration - state.first_seen >= dwell_threshold
            THEN <<GeneratedEvent(state, "dwell", duration, BuildDwellRagText(state, duration))>>
            ELSE <<>>)
        \o (IF (video_duration - state.last_seen) > exit_gap
            THEN <<GeneratedEvent(state, "exit", duration, BuildExitRagText(state, duration))>>
            ELSE <<>>)

\* the events generate() appends for one track, in order
EventsOfTrack(state, video_duration, dwell_threshold, exit_gap) ==
    LET duration == state.last_seen - state.first_seen
    IN  <<GeneratedEvent(state, "entry", duration, BuildEntryRagText(state, duration))>>
        \o (IF duration >= dwell_threshold
            THEN <<GeneratedEvent(state, "dwell", duration, BuildDwellRagText(state, duration))>>
            ELSE <<>>)
        \o (IF (video_duration - state.last_seen) > exit_gap
            THEN <<GeneratedEvent(state, "exit", duration, BuildExitRagText(state, duration))>>
            ELSE <<>>)

\* EventGenerator.generate: loop over track_states.items() in dict order
RECURSIVE Generate(_, _, _, _)
Generate(states, video_duration, dwell_threshold, exit_gap) ==
    IF states = <<>> THEN <<>>
    ELSE EventsOfTrack(Head(states), video_duration, dwell_threshold, exit_gap)
         \o Generate(Tail(states), video_duration, dwell_threshold, exit_gap)

\* ------------------------------------------------------------------------
\* The videos on disk (the environment of the pipeline)
\* ------------------------------------------------------------------------
AllVideos == {"a.mp4", "b.mp4", "c.mp4"}

\* the directory listings run() may find: sorted names
Listings == {<<"a.mp4", "b.mp4">>, <<"c.mp4">>, <<"a.mp4", "c.mp4">>}

\* Detection dataclass (detector.py); NoTrack stands for track_id = None
NoTrack == 0
Detection(cls, conf, tid) == [object_class |-> cls, confidence |-> conf, track_id |-> tid]

\* timestamps of the frames the FrameSampler yields for a video
FrameSeconds(v) ==
    IF v = "a.mp4" THEN <<1, 11, 15>> ELSE IF v = "c.mp4" THEN <<2>> ELSE <<>>

\* what detect_with_tracking returns on frame i of a video when it succeeds
DetectorOutput(v, i) ==
    IF v = "a.mp4" /\ i = 1 THEN <<Detection("person", 60, 1)>>
    ELSE IF v = "a.mp4" /\ i = 2 THEN <<Detection("person", 90, 1), Detection("car", 40, NoTrack)>>
    ELSE IF v = "c.mp4" /\ i = 1 THEN <<Detection("car", 70, NoTrack)>>
    ELSE <<>>

\* the track ids a detector output carries: what the tracker session holds
\* after the call
TrackedIds(dets) == {dets[i].track_id : i \in 1..Len(dets)} \ {NoTrack}

\* ------------------------------------------------------------------------
\* repository.py : processing_status
\* ------------------------------------------------------------------------
\* absence of a row, and the column defaults of a new ProcessingStatus
NoStatusRow ==
    [status |-> "absent", last_error |-> None, error_count |-> 0,
     phase_6b_completed |-> FALSE, phase_6b_tracks_attributed |-> <<>>]

NewStatusRow == [NoStatusRow EXCEPT !.status = "pending"]

\* upsert_status: get or create, then setattr for every keyword
UpsertStatus(st, v, kwargs) ==
    LET row == IF st[v] = NoStatusRow THEN NewStatusRow ELSE st[v]
    IN  [st EXCEPT ![v] = [f \in DOMAIN row |->
                              IF f \in DOMAIN kwargs THEN kwargs[f] ELSE row[f]]]

MarkRunning(st, v) == UpsertStatus(st, v, [status |-> "running", last_error |-> None])

MarkCompleted(st, v) == UpsertStatus(st, v, [status |-> "completed"])

\* mark_failed leaving error_count as it was
MarkFailed_KeepsCount(st, v, error) ==
    UpsertStatus(st, v, [status |-> "failed", last_error |-> error])

MarkFailed(st, v, error) ==
    UpsertStatus(st, v, [status |-> "failed", last_error |-> error,
                         error_count |-> IF st[v] = NoStatusRow THEN 1
                                         ELSE st[v].error_count + 1])

MarkSkipped(st, v) == UpsertStatus(st, v, [status |-> "skipped"])

\* mark_scene_detected and mark_scene_captioned: when the row exists they
\* write scenes_detected, current_second, scenes_captioned and updated_at,
\* none of them a column kept in the rows here
MarkSceneDetected(st, v) == st

MarkSceneCaptioned(st, v) == st

IsCompleted(st, v) == st[v] # NoStatusRow /\ st[v].status = "completed"

Mark6bCompleted(st, v, tracks_attributed) ==
    IF st[v] = NoStatusRow THEN st
    ELSE [st EXCEPT ![v].phase_6b_completed = TRUE,
                    ![v].phase_6b_tracks_attributed = <<tracks_attributed>>]

\* has_6b_completed answering False whatever the row holds
Has6bCompleted_Never(st, v) == FALSE

Has6bCompleted(st, v) == st[v] # NoStatusRow /\ st[v].phase_6b_completed

HasDetectionData(objs, v) == \E i \in 1..Len(objs) : objs[i].video_filename = v

\* recover_stale_jobs changing no row
RecoverStaleJobs_KeepRunning(st) == st

\* main.py recover_stale_jobs: every running row becomes failed
RecoverStaleJobs(st) ==
    [v \in DOMAIN st |->
        IF st[v].status = "running"
        THEN [st[v] EXCEPT !.status = "failed", !.last_error = ErrStale]
        ELSE st[v]]

\* ------------------------------------------------------------------------
\* rows and embeddings
\* ------------------------------------------------------------------------
\* save_crop: the path is keyed by video, class, track id and timestamp
CropPath(v, det, seconds) == <<v, det.object_class, det.track_id, seconds>>

\* build_detection_rag_text
BuildDetectionRagText(det, seconds) ==
    <<"detected", det.object_class, det.track_id, seconds, det.confidence>>

\* the crop_path local of the frame loop (lines 198-210)
CropOf(v, det, seconds) ==
    IF det.confidence >= CropMinConfidence /\ det.track_id # NoTrack
    THEN CropPath(v, det, seconds) ELSE NoCrop

\* save_detected_object: one new row, no embedding yet
DetectedObjectRow(v, det, seconds) ==
    [video_filename |-> v, frame_second_offset |-> seconds,
     object_class |-> det.object_class, confidence |-> det.confidence,
     track_id |-> det.track_id, crop_path |-> CropOf(v, det, seconds),
     rag_text |-> BuildDetectionRagText(det, seconds),
     attrs |-> None, embedding |-> <<>>]

\* save_track_event: one new row, no embedding yet
TrackEventRow(v, ev) ==
    [video_filename |-> v, track_id |-> ev.track_id, object_class |-> ev.object_class,
     event_type |-> ev.event_type,
     first_seen_second |-> ev.first_seen_second,
     last_seen_second |-> ev.last_seen_second,
     duration_seconds |-> ev.duration_seconds,
     best_frame_second |-> ev.best_frame_second,
     best_crop_path |-> ev.best_crop_path,
     best_confidence |-> ev.best_confidence,
     rag_text |-> ev.rag_text, attributes |-> None, embedding |-> <<>>]

\* the embedding row ObjectIndexer / AttributeProcessor writes for a text
\* (text and model_used record what the vector was computed from and by)
EmbeddingRow(text) ==
    [text |-> text, model_name |-> embed_model, model_used |-> EMBEDDING_MODEL]

\* IndexRow without the lookup of an existing embedding row
IndexRow_NoExistingCheck(rows, i) ==
    [rows EXCEPT ![i].embedding = Append(@, EmbeddingRow(rows[i].rag_text))]

\* index_detected_object / index_track_event on row i of a table:
\* an existing embedding row is returned unchanged
IndexRow(rows, i) ==
    IF rows[i].embedding # <<>> THEN rows
    ELSE [rows EXCEPT ![i].embedding = <<EmbeddingRow(rows[i].rag_text)>>]

\* ------------------------------------------------------------------------
\* video_intelligence_processor.py : _update_track_state
\* ------------------------------------------------------------------------
TrackIndex(states, tid) ==
    IF \E i \in 1..Len(states) : states[i].track_id = tid
    THEN CHOOSE i \in 1..Len(states) : states[i].track_id = tid
    ELSE 0

\* _update_track_state taking the class of the latest detection
UpdateTrackState_Relabels(states, det, seconds, crop_path) ==
    LET i == TrackIndex(states, det.track_id) IN
    IF i = 0
    THEN Append(states, TrackState(det.track_id, det.object_class, seconds, seconds,
                                   1, seconds, det.confidence, crop_path, <<seconds>>))
    ELSE LET s == states[i]
             better == det.confidence > s.best_confidence
         IN [states EXCEPT ![i] =
                [s EXCEPT !.object_class = det.object_class,
                          !.last_seen = seconds,
                          !.frame_count = s.frame_count + 1,
                          !.all_seconds = Append(s.all_seconds, seconds),
                          !.best_confidence = IF better THEN det.confidence ELSE @,
                          !.best_second = IF better THEN seconds ELSE @,
                          !.best_crop_path = IF better /\ crop_path # NoCrop
                                             THEN crop_path ELSE @]]

UpdateTrackState(states, det, seconds, crop_path) ==
    LET i == TrackIndex(states, det.track_id) IN
    IF i = 0
    THEN Append(states, TrackState(det.track_id, det.object_class, seconds, seconds,
                                   1, seconds, det.confidence, crop_path, <<seconds>>))
    ELSE LET s == states[i]
             better == det.confidence > s.best_confidence
         IN [states EXCEPT ![i] =
                [s EXCEPT !.last_seen = seconds,
                          !.frame_count = s.frame_count + 1,
                          !.all_seconds = Append(s.all_seconds, seconds),
                          !.best_confidence = IF better THEN det.confidence ELSE @,
                          !.best_second = IF better THEN seconds ELSE @,
                          !.best_crop_path = IF better /\ crop_path # NoCrop
                                             THEN crop_path ELSE @]]

\* ------------------------------------------------------------------------
\* attribute_processor.py
\* ------------------------------------------------------------------------
VehicleClasses == {"car", "truck", "bus", "motorcycle", "bicycle"}
PersonClasses == {"person"}

\* what an extractor can return: the all-unknown default or a description
AttrsUnknown == "all_unknown"
AttrsSeen == "described"
ExtractResults == {AttrsUnknown, AttrsSeen}

\* ------------------------------------------------------------------------
\* attribute_extractor.py
\* ------------------------------------------------------------------------
\* the exception of data.get(...) when data has no get attribute
AttributeError == "AttributeError"

\* the crop file as cv2.imread finds it
CropOutcomes == {"unreadable", "readable"}

\* the outcomes of requests.post and the shapes of the response text
ServiceReplies ==
    {"timeout", "http_error", "empty", "prose", "fenced_list",
     "json_null", "json_object", "json_empty_object", "fenced_object",
     "embedded_object", "json_list", "json_number", "json_string", "json_bool"}

\* _load_and_encode_crop: the base64 string, None when the file can't be read
LoadAndEncodeCrop(crop) == IF crop = "unreadable" THEN None ELSE "b64"

\* _call_vision_model: the response text, None on timeout or any exception
CallVisionModel(reply) == IF reply \in {"timeout", "http_error"} THEN None ELSE reply

\* what the three parse attempts of _extract_json find in a response text:
\*   whole  - json.loads(text.strip()): JSONDecodeError, or the kind of value
\*   fenced - the {...} of a ``` block: no match, JSONDecodeError, or a dict
\*   span   - the first {...} without inner braces: no match,
\*            JSONDecodeError, or a dict
JSONDecodeError == "JSONDecodeError"
NoMatch == "no_match"

JsonKinds == {"dict", "empty_dict", "list", "number", "str", "bool", "null"}
DictKinds == {"dict", "empty_dict", "inner_dict"}

ResponseText(whole, fenced, span) ==
    [empty |-> FALSE, whole |-> whole, fenced |-> fenced, span |-> span]

EmptyText == [empty |-> TRUE, whole |-> JSONDecodeError, fenced |-> NoMatch, span |-> NoMatch]

\* the Python value json.loads returns for a kind of JSON value
Loads(kind) == IF kind = "null" THEN None ELSE kind

\* the texts behind the response shapes of ServiceReplies
TextOfReply(reply) ==
    CASE reply = "empty" -> EmptyText
      [] reply = "json_null" -> ResponseText("null", NoMatch, NoMatch)
      [] reply = "json_object" -> ResponseText("dict", NoMatch, "dict")
      [] reply = "json_empty_object" -> ResponseText("empty_dict", NoMatch, NoMatch)
      [] reply = "json_list" -> ResponseText("list", NoMatch, NoMatch)
      [] reply = "json_number" -> ResponseText("number", NoMatch, NoMatch)
      [] reply = "json_string" -> ResponseText("str", NoMatch, NoMatch)
      [] reply = "json_bool" -> ResponseText("bool", NoMatch, NoMatch)
      [] reply = "fenced_object" -> ResponseText(JSONDecodeError, "dict", "dict")
      [] reply = "embedded_object" -> ResponseText(JSONDecodeError, NoMatch, "dict")
      [] OTHER -> ResponseText(JSONDecodeError, NoMatch, NoMatch)

\* _extract_json with the {...} scan tried before the fenced block
ExtractJson_SpanFirst(text) ==
    IF text.empty THEN None
    ELSE IF text.whole # JSONDecodeError THEN Loads(text.whole)
    ELSE IF text.span \notin {NoMatch, JSONDecodeError} THEN Loads(text.span)
    ELSE IF text.fenced \notin {NoMatch, JSONDecodeError} THEN Loads(text.fenced)
    ELSE None

\* _extract_json: the value json.loads made of the text (whatever its type),
\* else the object of a fenced block, else the first {...} of the text, else None
ExtractJson(text) ==
    IF text.empty THEN None
    ELSE IF text.whole # JSONDecodeError THEN Loads(text.whole)
    ELSE IF text.fenced \notin {NoMatch, JSONDecodeError} THEN Loads(text.fenced)
    ELSE IF text.span \notin {NoMatch, JSONDecodeError} THEN Loads(text.span)
    ELSE None

\* the attribute object built with data.get(key, default) on the parsed value
AttrsFromData(data) ==
    CASE data = "dict" -> AttrsSeen
      [] data = "empty_dict" -> AttrsUnknown     \* every key takes its default
      [] OTHER -> AttributeError

\* VehicleAttributeExtractor.extract
VehicleExtract(crop, reply) ==
    LET image_b64 == LoadAndEncodeCrop(crop)
        raw == CallVisionModel(reply)
        data == ExtractJson(TextOfReply(raw))
    IN IF image_b64 = None THEN AttrsUnknown
       ELSE IF raw = None THEN AttrsUnknown
       ELSE IF data = None THEN AttrsUnknown
       ELSE AttrsFromData(data)

\* PersonAttributeExtractor.extract
PersonExtract(crop, reply) ==
    LET image_b64 == LoadAndEncodeCrop(crop)
        raw == CallVisionModel(reply)
        data == ExtractJson(TextOfReply(raw))
    IN IF image_b64 = None THEN AttrsUnknown
       ELSE IF raw = None THEN AttrsUnknown
       ELSE IF data = None THEN AttrsUnknown
       ELSE AttrsFromData(data)

\* build_vehicle_rag_text / build_person_rag_text for one event
BuildEnrichedRagText(ev, attrs) ==
    <<"enriched", ev.event_type, ev.object_class, ev.track_id, ev.first_seen_second,
      ev.last_seen_second, ev.duration_seconds, ev.best_confidence, attrs>>

\* the entry events of a video ordered by track_id (rows of one track keep
\* their insertion order)
RECURSIVE SortByTrack(_, _)
SortByTrack(rows, idxs) ==
    IF idxs = {} THEN <<>>
    ELSE LET m == CHOOSE i \in idxs :
                    \A j \in idxs : \/ rows[i].track_id < rows[j].track_id
                                    \/ (rows[i].track_id = rows[j].track_id /\ i <= j)
         IN <<m>> \o SortByTrack(rows, idxs \ {m})

EntryEvents(rows, v) ==
    SortByTrack(rows, {i \in 1..Len(rows) :
                          rows[i].video_filename = v /\ rows[i].event_type = "entry"})

EventsOfTrackId(rows, v, tid) ==
    {i \in 1..Len(rows) : rows[i].video_filename = v /\ rows[i].track_id = tid}

\* _update_best_detected_object_*: the highest-confidence detection row of the track
BestDetectedObject(objs, v, tid) ==
    LET cand == {i \in 1..Len(objs) : objs[i].video_filename = v /\ objs[i].track_id = tid}
    IN  IF cand = {} THEN 0
        ELSE CHOOSE i \in cand :
                \A j \in cand : \/ objs[i].confidence > objs[j].confidence
                                \/ (objs[i].confidence = objs[j].confidence /\ i <= j)

\* the attribute fields written to every detection row of the track
UpdateBestDetectedObject_AllRows(objs, v, tid, attrs) ==
    [i \in 1..Len(objs) |->
        IF objs[i].video_filename = v /\ objs[i].track_id = tid
        THEN [objs[i] EXCEPT !.attrs = IF attrs = AttrsUnknown THEN None ELSE attrs]
        ELSE objs[i]]

\* unknown values are stored as NULL
UpdateBestDetectedObject(objs, v, tid, attrs) ==
    LET b == BestDetectedObject(objs, v, tid) IN
    IF b = 0 THEN objs
    ELSE [objs EXCEPT ![b].attrs = IF attrs = AttrsUnknown THEN None ELSE attrs]

\* EnrichTrackEvents without _reembed_track_event: the text is upgraded and the
\* embedding row written at indexing time is kept
EnrichTrackEvents_NoReembed(rows, v, e, attrs, failed) ==
    [i \in 1..Len(rows) |->
        IF i \in EventsOfTrackId(rows, v, rows[e].track_id)
        THEN LET text == IF rows[i].event_type = "entry"
                         THEN BuildEnrichedRagText(rows[e], attrs)
                         ELSE BuildEnrichedRagText(rows[i], attrs)
             IN [rows[i] EXCEPT !.attributes = attrs,
                                !.rag_text = text]
        ELSE rows[i]]

\* EnrichTrackEvents writing attributes and text to the entry rows only
EnrichTrackEvents_EntryOnly(rows, v, e, attrs, failed) ==
    [i \in 1..Len(rows) |->
        IF i \in EventsOfTrackId(rows, v, rows[e].track_id)
           /\ rows[i].event_type = "entry"
        THEN LET text == BuildEnrichedRagText(rows[e], attrs)
             IN [rows[i] EXCEPT !.attributes = attrs,
                                !.rag_text = text,
                                !.embedding = IF i \in failed THEN <<>>
                                              ELSE <<EmbeddingRow(text)>>]
        ELSE rows[i]]

\* lines 182-236 for the track of entry event e: attributes and text on every
\* event of the track (an entry row gets the text built from e, the others a
\* text built from their own fields), then _reembed_track_event on each;
\* failed holds the events whose embedding call raised (the old embedding row
\* is deleted, no new one is added)
EnrichTrackEvents(rows, v, e, attrs, failed) ==
    [i \in 1..Len(rows) |->
        IF i \in EventsOfTrackId(rows, v, rows[e].track_id)
        THEN LET text == IF rows[i].event_type = "entry"
                         THEN BuildEnrichedRagText(rows[e], attrs)
                         ELSE BuildEnrichedRagText(rows[i], attrs)
             IN [rows[i] EXCEPT !.attributes = attrs,
                                !.rag_text = text,
                                !.embedding = IF i \in failed THEN <<>>
                                              ELSE <<EmbeddingRow(text)>>]
        ELSE rows[i]]

\* ------------------------------------------------------------------------
\* State
\* ------------------------------------------------------------------------
procvars == <<pc, run_no, video_files, video_idx, shutdown_requested, current_video>>
dbvars == <<status, detected_objects, track_events>>
locvars == <<sampler_pos, track_states, last_second, frame_dets, saved_obj,
             generated_events, attr_mode, attr_queue, attributed_count>>
envvars == <<has_total_frames, faults_left>>
histvars == <<h_recovered, h_run>>
vars == <<genvars, extvars, idxvars, trkvars, quadvars, embed_model, h_reset, tracker_ids, procvars, session_ok, dbvars, locvars, envvars, histvars>>

\* history of one _process_video call
\*   path      branch taken after the duplicate check
\*   start     status and enrichment flag of the video's row when the call began
\*   n_obj, n_ev  number of detection / event rows when the call began
\*   status0   the processing_status table when the call began
\*   bad_frames  seconds of the frames whose detection call failed
\*   trace     milestones of the call, in the order they happened
\*   faulted   a service, write or file failure was injected during the call
NoCall ==
    [path |-> "none", start |-> "none", start_6b |-> FALSE, n_obj |-> 0, n_ev |-> 0,
     status0 |-> [v \in AllVideos |-> NoStatusRow], bad_frames |-> {},
     trace |-> <<>>, faulted |-> FALSE, reset |-> FALSE]

Reached(h, m) == \E i \in 1..Len(h.trace) : h.trace[i] = m
Mark(h, m) == [h EXCEPT !.trace = Append(@, m)]
MarkOnce(h, m) == IF Reached(h, m) THEN h ELSE Mark(h, m)

FreshLocals ==
    /\ sampler_pos' = 0
    /\ track_states' = <<>>
    /\ last_second' = 0
    /\ frame_dets' = <<>>
    /\ saved_obj' = 0
    /\ generated_events' = <<>>
    /\ attr_mode' = None
    /\ attr_queue' = <<>>
    /\ attributed_count' = 0

TrkOff ==
    /\ t_pc = "off"
    /\ t_stream = <<>>
    /\ t_states = <<>>
    /\ t_events = <<>>
    /\ t_replay = <<>>

QuadOff ==
    /\ q_pc = "off"
    /\ q_box = <<0, 0, 0, 0>>
    /\ q_frame = <<1, 1>>
    /\ q_label = None

NoIndexOp == [op |-> "none", id |-> 0, returned |-> <<>>, raised |-> FALSE]

IdxOff ==
    /\ i_pc = "off"
    /\ i_ops = 0
    /\ i_calls = 0
    /\ i_last = NoIndexOp

ExtOff ==
    /\ x_pc = "off"
    /\ x_class = None
    /\ x_crop = None
    /\ x_reply = None
    /\ x_result = None

GenOff ==
    /\ g_pc = "off"
    /\ g_states = <<>>
    /\ g_duration = 0
    /\ g_dwell = 0
    /\ g_gap = 0
    /\ g_events = <<>>

Init ==
    /\ GenOff
    /\ ExtOff
    /\ IdxOff
    /\ TrkOff
    /\ QuadOff
    /\ embed_model = EmbedModelSetting
    /\ pc = "boot"
    /\ run_no = 1
    /\ video_files \in Listings
    /\ video_idx = 0
    /\ shutdown_requested = FALSE
    /\ current_video = None
    /\ session_ok = TRUE
    /\ status = [v \in AllVideos |-> NoStatusRow]
    /\ detected_objects = <<>>
    /\ track_events = <<>>
    /\ sampler_pos = 0
    /\ track_states = <<>>
    /\ last_second = 0
    /\ frame_dets = <<>>
    /\ saved_obj = 0
    /\ generated_events = <<>>
    /\ attr_mode = None
    /\ attr_queue = <<>>
    /\ attributed_count = 0
    /\ has_total_frames \in BOOLEAN
    /\ faults_left = MaxFaults
    /\ h_recovered = {}
    /\ h_reset = {}
    /\ tracker_ids = {}
    /\ h_run = NoCall

\* one injected failure of a service, a write or a file
UseFault == faults_left > 0 /\ faults_left' = faults_left - 1
NoFault == faults_left' = faults_left

\* ------------------------------------------------------------------------
\* main.py
\* ------------------------------------------------------------------------
\* main() up to and including recover_stale_jobs(logger)
MainRecover ==
    /\ pc = "boot"
    /\ status' = RecoverStaleJobs(status)
    /\ h_recovered' = {v \in AllVideos : status[v].status = "running"}
    /\ pc' = "construct"
    /\ UNCHANGED <<genvars, run_no, video_files, video_idx, shutdown_requested,
                   current_video, detected_objects, track_events, locvars, envvars, h_run>>
    /\ UNCHANGED session_ok
    /\ UNCHANGED extvars
    /\ UNCHANGED <<idxvars, trkvars, quadvars, embed_model, h_reset, tracker_ids>>

\* VideoIntelligenceProcessor() installs the handlers; run() lists the videos
MainRun ==
    /\ pc = "construct"
    /\ shutdown_requested' = FALSE
    /\ current_video' = None
    /\ video_idx' = 1
    /\ pc' = "run_loop"
    /\ UNCHANGED <<genvars, run_no, video_files, dbvars, locvars, envvars, histvars>>
    /\ UNCHANGED session_ok
    /\ UNCHANGED extvars
    /\ tracker_ids' = {}
    /\ UNCHANGED <<idxvars, trkvars, quadvars, embed_model, h_reset>>

\* ------------------------------------------------------------------------
\* video_intelligence_processor.py
\* ------------------------------------------------------------------------
\* run(): for video_file in video_files: if shutdown: break
RunLoop ==
    /\ pc = "run_loop"
    /\ pc' = IF video_idx > Len(video_files) \/ shutdown_requested
             THEN "exited" ELSE "pv_enter"
    /\ UNCHANGED <<genvars, run_no, video_files, video_idx, shutdown_requested,
                   current_video, dbvars, locvars, envvars, histvars>>
    /\ UNCHANGED session_ok
    /\ UNCHANGED extvars
    /\ UNCHANGED <<idxvars, trkvars, quadvars, embed_model, h_reset, tracker_ids>>

\* _process_video lines 108-114: db = SessionLocal() is a fresh session
PvEnter ==
    /\ pc = "pv_enter"
    /\ current_video' = video_files[video_idx]
    /\ h_run' = [NoCall EXCEPT
                    !.start = status[video_files[video_idx]].status,
                    !.start_6b = status[video_files[video_idx]].phase_6b_completed,
                    !.n_obj = Len(detected_objects),
                    !.n_ev = Len(track_events),
                    !.status0 = status,
                    !.reset = video_files[video_idx] \in h_reset]
    /\ h_reset' = h_reset \ {video_files[video_idx]}
    /\ session_ok' = TRUE
    /\ pc' = "pv_dup"
    /\ FreshLocals
    /\ UNCHANGED <<genvars, run_no, video_files, video_idx, shutdown_requested,
                   dbvars, envvars, h_recovered>>
    /\ UNCHANGED extvars
    /\ UNCHANGED <<idxvars, trkvars, quadvars, embed_model, tracker_ids>>

\* line 118: if repo.is_completed(video_file)
PvIsCompleted ==
    /\ pc = "pv_dup"
    /\ pc' = IF IsCompleted(status, current_video) THEN "pv_completed" ELSE "pv_sampler"
    /\ h_run' = [h_run EXCEPT !.path = IF IsCompleted(status, current_video)
                                       THEN "completed" ELSE "full"]
    /\ UNCHANGED <<genvars, run_no, video_files, video_idx, shutdown_requested,
                   current_video, dbvars, locvars, envvars, h_recovered>>
    /\ UNCHANGED session_ok
    /\ UNCHANGED extvars
    /\ UNCHANGED <<idxvars, trkvars, quadvars, embed_model, h_reset, tracker_ids>>

\* lines 122-130: enrichment only, or mark_skipped
PvCompleted ==
    /\ pc = "pv_completed"
    /\ IF ~Has6bCompleted(status, current_video)
          /\ HasDetectionData(detected_objects, current_video)
       THEN /\ attr_mode' = "6b_only"
            /\ pc' = "attr_begin"
            /\ h_run' = Mark([h_run EXCEPT !.path = "6b_only"], "attr_begin")
            /\ UNCHANGED status
       ELSE /\ status' = MarkSkipped(status, current_video)
            /\ pc' = "pv_finally"
            /\ h_run' = Mark([h_run EXCEPT !.path = "skip"], "skipped")
            /\ UNCHANGED attr_mode
    /\ UNCHANGED <<genvars, run_no, video_files, video_idx, shutdown_requested,
                   current_video, detected_objects, track_events, sampler_pos,
                   track_states, last_second, frame_dets, saved_obj, generated_events,
                   attr_queue, attributed_count, envvars, h_recovered>>
    /\ UNCHANGED session_ok
    /\ UNCHANGED extvars
    /\ UNCHANGED <<idxvars, trkvars, quadvars, embed_model, h_reset, tracker_ids>>

\* PvOpenSampler with mark_running called before FrameSampler is constructed
PvOpenSampler_MarkFirst ==
    /\ pc = "pv_sampler"
    /\ \/ /\ NoFault
          /\ pc' = "pv_mark_running"
          /\ UNCHANGED <<h_run, status>>
       \/ /\ UseFault
          /\ status' = MarkRunning(status, current_video)
          /\ pc' = "pv_except"
          /\ h_run' = Mark(Mark(Mark([h_run EXCEPT !.faulted = TRUE], "running"),
                                "sampler_failed"), "escaped")
    /\ UNCHANGED <<genvars, run_no, video_files, video_idx, shutdown_requested,
                   current_video, detected_objects, track_events, locvars,
                   has_total_frames, h_recovered>>
    /\ UNCHANGED session_ok
    /\ UNCHANGED extvars
    /\ tracker_ids' = {}
    /\ UNCHANGED <<idxvars, trkvars, quadvars, embed_model, h_reset>>

\* PvOpenSampler without the reset_tracker() call
PvOpenSampler_NoTrackerReset ==
    /\ pc = "pv_sampler"
    /\ \/ /\ NoFault
          /\ pc' = "pv_mark_running"
          /\ UNCHANGED h_run
       \/ /\ UseFault
          /\ pc' = "pv_except"
          /\ h_run' = Mark(Mark([h_run EXCEPT !.faulted = TRUE], "sampler_failed"), "escaped")
    /\ UNCHANGED <<genvars, run_no, video_files, video_idx, shutdown_requested,
                   current_video, dbvars, locvars, has_total_frames, h_recovered>>
    /\ UNCHANGED session_ok
    /\ UNCHANGED extvars
    /\ tracker_ids' = tracker_ids
    /\ UNCHANGED <<idxvars, trkvars, quadvars, embed_model, h_reset>>

\* lines 133-136: reset_tracker(), FrameSampler(full_path, fps); the
\* constructor raises when the file cannot be opened, has no valid FPS, or
\* the sample rate is not positive
PvOpenSampler ==
    /\ pc = "pv_sampler"
    /\ \/ /\ NoFault
          /\ pc' = "pv_mark_running"
          /\ UNCHANGED h_run
       \/ /\ UseFault
          /\ pc' = "pv_except"
          /\ h_run' = Mark(Mark([h_run EXCEPT !.faulted = TRUE], "sampler_failed"), "escaped")
    /\ UNCHANGED <<genvars, run_no, video_files, video_idx, shutdown_requested,
                   current_video, dbvars, locvars, has_total_frames, h_recovered>>
    /\ UNCHANGED session_ok
    /\ UNCHANGED extvars
    /\ tracker_ids' = {}
    /\ UNCHANGED <<idxvars, trkvars, quadvars, embed_model, h_reset>>

\* lines 137-151: repo.mark_running(..., total_frames=sampler.total_frames);
\* reading an attribute the sampler does not have raises AttributeError
PvMarkRunning ==
    /\ pc = "pv_mark_running"
    /\ IF has_total_frames
       THEN /\ status' = MarkRunning(status, current_video)
            /\ pc' = "pv_loop"
            /\ h_run' = Mark(h_run, "running")
       ELSE /\ pc' = "pv_except"
            /\ h_run' = Mark(h_run, "escaped")
            /\ UNCHANGED status
    /\ UNCHANGED <<genvars, run_no, video_files, video_idx, shutdown_requested,
                   current_video, detected_objects, track_events, locvars, envvars,
                   h_recovered>>
    /\ UNCHANGED session_ok
    /\ UNCHANGED extvars
    /\ UNCHANGED <<idxvars, trkvars, quadvars, embed_model, h_reset, tracker_ids>>

\* lines 154-165: for frame, seconds in sampler: if shutdown: mark_failed, return
PvNextFrame ==
    /\ pc = "pv_loop"
    /\ IF sampler_pos >= Len(FrameSeconds(current_video))
       THEN /\ pc' = "pv_events"
            /\ h_run' = Mark(MarkOnce(h_run, "loop"), "exhausted")
            /\ UNCHANGED <<status, sampler_pos, last_second>>
       ELSE IF shutdown_requested
       THEN /\ status' = MarkFailed(status, current_video, ErrMidVideo)
            /\ pc' = "pv_finally"
            /\ sampler_pos' = sampler_pos + 1
            /\ h_run' = Mark(MarkOnce(h_run, "loop"), "interrupted")
            /\ UNCHANGED last_second
       ELSE /\ sampler_pos' = sampler_pos + 1
            /\ last_second' = FrameSeconds(current_video)[sampler_pos + 1]
            /\ pc' = "pv_detect"
            /\ h_run' = MarkOnce(h_run, "loop")
            /\ UNCHANGED status
    /\ UNCHANGED <<genvars, run_no, video_files, video_idx, shutdown_requested,
                   current_video, detected_objects, track_events, track_states,
                   frame_dets, saved_obj, generated_events, attr_mode, attr_queue,
                   attributed_count, envvars, h_recovered>>
    /\ UNCHANGED session_ok
    /\ UNCHANGED extvars
    /\ UNCHANGED <<idxvars, trkvars, quadvars, embed_model, h_reset, tracker_ids>>

\* PvDetect with a detection call whose exception is not caught by _safe_detect
PvDetect_Unsafe ==
    /\ pc = "pv_detect"
    /\ \/ /\ NoFault
          /\ frame_dets' = DetectorOutput(current_video, sampler_pos)
          /\ tracker_ids' = tracker_ids \cup TrackedIds(DetectorOutput(current_video, sampler_pos))
          /\ pc' = IF DetectorOutput(current_video, sampler_pos) = <<>>
                   THEN "pv_loop" ELSE "pv_save_det"
          /\ UNCHANGED h_run
       \/ /\ UseFault
          /\ pc' = "pv_except"
          /\ h_run' = Mark(Mark([h_run EXCEPT !.faulted = TRUE,
                                              !.bad_frames = @ \cup {last_second}],
                                "detect_failed"), "escaped")
          /\ UNCHANGED <<frame_dets, tracker_ids>>
    /\ UNCHANGED <<genvars, run_no, video_files, video_idx, shutdown_requested,
                   current_video, dbvars, sampler_pos, track_states, last_second,
                   saved_obj, generated_events, attr_mode, attr_queue, attributed_count,
                   has_total_frames, h_recovered>>
    /\ UNCHANGED session_ok
    /\ UNCHANGED extvars
    /\ UNCHANGED <<idxvars, trkvars, quadvars, embed_model, h_reset>>

\* lines 168-173 and _safe_detect: a failed call skips the frame
PvDetect ==
    /\ pc = "pv_detect"
    /\ \/ /\ NoFault
          /\ frame_dets' = DetectorOutput(current_video, sampler_pos)
          /\ tracker_ids' = tracker_ids \cup TrackedIds(DetectorOutput(current_video, sampler_pos))
          /\ pc' = IF DetectorOutput(current_video, sampler_pos) = <<>>
                   THEN "pv_loop" ELSE "pv_save_det"
          /\ UNCHANGED h_run
       \/ /\ UseFault
          /\ pc' = "pv_loop"
          /\ h_run' = Mark([h_run EXCEPT !.faulted = TRUE,
                                         !.bad_frames = @ \cup {last_second}],
                           "detect_failed")
          /\ UNCHANGED <<frame_dets, tracker_ids>>
    /\ UNCHANGED <<genvars, run_no, video_files, video_idx, shutdown_requested,
                   current_video, dbvars, sampler_pos, track_states, last_second,
                   saved_obj, generated_events, attr_mode, attr_queue, attributed_count,
                   has_total_frames, h_recovered>>
    /\ UNCHANGED session_ok
    /\ UNCHANGED extvars
    /\ UNCHANGED <<idxvars, trkvars, quadvars, embed_model, h_reset>>

\* lines 185-231: crop, rag text, repo.save_detected_object (a failed write raises)
PvSaveDetection ==
    /\ pc = "pv_save_det"
    /\ \/ /\ NoFault
          /\ UNCHANGED session_ok
          /\ detected_objects' = Append(detected_objects,
                 DetectedObjectRow(current_video, Head(frame_dets), last_second))
          /\ saved_obj' = Len(detected_objects) + 1
          /\ pc' = "pv_index_det"
          /\ UNCHANGED h_run
       \/ /\ UseFault
          /\ pc' = "pv_except"
          /\ session_ok' = FALSE
          /\ h_run' = Mark(Mark([h_run EXCEPT !.faulted = TRUE], "write_failed"), "escaped")
          /\ UNCHANGED <<detected_objects, saved_obj>>
    /\ UNCHANGED <<genvars, run_no, video_files, video_idx, shutdown_requested,
                   current_video, status, track_events, sampler_pos, track_states,
                   last_second, frame_dets, generated_events, attr_mode, attr_queue,
                   attributed_count, has_total_frames,
                   h_recovered>>
    /\ UNCHANGED extvars
    /\ UNCHANGED <<idxvars, trkvars, quadvars, embed_model, h_reset, tracker_ids>>

\* lines 234-243: indexer.index_detected_object (the embedding call may raise),
\* _update_track_state for a tracked detection, then the next detection
PvIndexDetection ==
    /\ pc = "pv_index_det"
    /\ \/ /\ NoFault
          /\ detected_objects' = IndexRow(detected_objects, saved_obj)
          /\ track_states' =
                IF Head(frame_dets).track_id # NoTrack
                THEN UpdateTrackState(track_states, Head(frame_dets), last_second,
                                      CropOf(current_video, Head(frame_dets), last_second))
                ELSE track_states
          /\ frame_dets' = Tail(frame_dets)
          /\ pc' = IF Tail(frame_dets) = <<>> THEN "pv_loop" ELSE "pv_save_det"
          /\ UNCHANGED h_run
       \/ /\ UseFault
          /\ pc' = "pv_except"
          /\ h_run' = Mark(Mark([h_run EXCEPT !.faulted = TRUE], "index_failed"), "escaped")
          /\ UNCHANGED <<detected_objects, track_states, frame_dets>>
    /\ UNCHANGED <<genvars, run_no, video_files, video_idx, shutdown_requested,
                   current_video, status, track_events, sampler_pos, last_second,
                   saved_obj, generated_events, attr_mode, attr_queue, attributed_count,
                   has_total_frames, h_recovered>>
    /\ UNCHANGED session_ok
    /\ UNCHANGED extvars
    /\ UNCHANGED <<idxvars, trkvars, quadvars, embed_model, h_reset, tracker_ids>>

\* lines 246-252: if not shutdown and track_states: generate(track_states, last_second)
PvGenerateEvents ==
    /\ pc = "pv_events"
    /\ IF ~shutdown_requested /\ track_states # <<>>
       THEN /\ generated_events' = Generate(track_states, last_second,
                                            DwellThresholdSeconds, ExitGapSeconds)
            /\ pc' = "pv_save_event"
            /\ h_run' = Mark(h_run, "generated")
       ELSE /\ pc' = "pv_6b"
            /\ UNCHANGED <<generated_events, h_run>>
    /\ UNCHANGED <<genvars, run_no, video_files, video_idx, shutdown_requested,
                   current_video, dbvars, sampler_pos, track_states, last_second,
                   frame_dets, saved_obj, attr_mode, attr_queue, attributed_count,
                   envvars, h_recovered>>
    /\ UNCHANGED session_ok
    /\ UNCHANGED extvars
    /\ UNCHANGED <<idxvars, trkvars, quadvars, embed_model, h_reset, tracker_ids>>

\* lines 254-268: repo.save_track_event (a failed write raises)
PvSaveEvent ==
    /\ pc = "pv_save_event"
    /\ \/ /\ NoFault
          /\ UNCHANGED session_ok
          /\ track_events' = Append(track_events,
                 TrackEventRow(current_video, Head(generated_events)))
          /\ saved_obj' = Len(track_events) + 1
          /\ pc' = "pv_index_event"
          /\ UNCHANGED h_run
       \/ /\ UseFault
          /\ pc' = "pv_except"
          /\ session_ok' = FALSE
          /\ h_run' = Mark(Mark([h_run EXCEPT !.faulted = TRUE], "write_failed"), "escaped")
          /\ UNCHANGED <<track_events, saved_obj>>
    /\ UNCHANGED <<genvars, run_no, video_files, video_idx, shutdown_requested,
                   current_video, status, detected_objects, sampler_pos, track_states,
                   last_second, frame_dets, generated_events, attr_mode, attr_queue,
                   attributed_count, has_total_frames,
                   h_recovered>>
    /\ UNCHANGED extvars
    /\ UNCHANGED <<idxvars, trkvars, quadvars, embed_model, h_reset, tracker_ids>>

\* line 269: indexer.index_track_event (the embedding call may raise)
PvIndexEvent ==
    /\ pc = "pv_index_event"
    /\ \/ /\ NoFault
          /\ track_events' = IndexRow(track_events, saved_obj)
          /\ generated_events' = Tail(generated_events)
          /\ pc' = IF Tail(generated_events) = <<>> THEN "pv_6b" ELSE "pv_save_event"
          /\ h_run' = IF Tail(generated_events) = <<>>
                       THEN Mark(h_run, "events_saved") ELSE h_run
       \/ /\ UseFault
          /\ pc' = "pv_except"
          /\ h_run' = Mark(Mark([h_run EXCEPT !.faulted = TRUE], "index_failed"), "escaped")
          /\ UNCHANGED <<track_events, generated_events>>
    /\ UNCHANGED <<genvars, run_no, video_files, video_idx, shutdown_requested,
                   current_video, status, detected_objects, sampler_pos, track_states,
                   last_second, frame_dets, saved_obj, attr_mode, attr_queue,
                   attributed_count, has_total_frames,
                   h_recovered>>
    /\ UNCHANGED session_ok
    /\ UNCHANGED extvars
    /\ UNCHANGED <<idxvars, trkvars, quadvars, embed_model, h_reset, tracker_ids>>

\* lines 281-285: if not shutdown and track_states: AttributeProcessor(db).run(video)
PvPhase6b ==
    /\ pc = "pv_6b"
    /\ IF ~shutdown_requested /\ track_states # <<>>
       THEN /\ attr_mode' = "full"
            /\ pc' = "attr_begin"
            /\ h_run' = Mark(h_run, "attr_begin")
       ELSE /\ pc' = "pv_summary"
            /\ UNCHANGED <<attr_mode, h_run>>
    /\ UNCHANGED <<genvars, run_no, video_files, video_idx, shutdown_requested,
                   current_video, dbvars, sampler_pos, track_states, last_second,
                   frame_dets, saved_obj, generated_events, attr_queue,
                   attributed_count, envvars, h_recovered>>
    /\ UNCHANGED session_ok
    /\ UNCHANGED extvars
    /\ UNCHANGED <<idxvars, trkvars, quadvars, embed_model, h_reset, tracker_ids>>

\* AttributeProcessor.run lines 76-107: the entry events, ordered by track id
AttrBegin ==
    /\ pc = "attr_begin"
    /\ attr_queue' = EntryEvents(track_events, current_video)
    /\ attributed_count' = 0
    /\ pc' = IF EntryEvents(track_events, current_video) = <<>>
             THEN "attr_return" ELSE "attr_track"
    /\ UNCHANGED <<genvars, run_no, video_files, video_idx, shutdown_requested,
                   current_video, dbvars, sampler_pos, track_states, last_second,
                   frame_dets, saved_obj, generated_events, attr_mode, envvars, histvars>>
    /\ UNCHANGED session_ok
    /\ UNCHANGED extvars
    /\ UNCHANGED <<idxvars, trkvars, quadvars, embed_model, h_reset, tracker_ids>>

\* AttrTrack without the crop_path test of line 114: a track without a
\* saved crop is handed to the extractor
AttrTrack_NoCropCheck ==
    /\ pc = "attr_track"
    /\ LET e == Head(attr_queue)
           entry == track_events[e]
           supported == entry.object_class \in VehicleClasses \cup PersonClasses
           rest == Tail(attr_queue)
           extracted == {IF entry.object_class \in VehicleClasses
                         THEN VehicleExtract(c, r) ELSE PersonExtract(c, r) :
                            c \in CropOutcomes, r \in ServiceReplies}
           next_track == /\ attr_queue' = rest
                         /\ pc' = IF rest = <<>> THEN "attr_return" ELSE "attr_track"
       IN \/ /\ ~supported
             /\ NoFault
             /\ UNCHANGED <<track_events, detected_objects, attributed_count, h_run>>
             /\ next_track
          \/ /\ entry.best_crop_path # NoCrop
             /\ UseFault          \* os.path.exists(crop_path) is false
             /\ h_run' = Mark(h_run, "crop_missing")
             /\ UNCHANGED <<track_events, detected_objects, attributed_count>>
             /\ next_track
          \/ /\ supported
             /\ \E attrs \in extracted \cap ExtractResults :
                \E failed \in SUBSET EventsOfTrackId(track_events, current_video,
                                                     entry.track_id) :
                   /\ Cardinality(failed) <= faults_left
                   /\ faults_left' = faults_left - Cardinality(failed)
                   /\ track_events' = EnrichTrackEvents(track_events, current_video,
                                                        e, attrs, failed)
                   /\ detected_objects' = UpdateBestDetectedObject(detected_objects,
                                              current_video, entry.track_id, attrs)
             /\ attributed_count' = attributed_count + 1
             /\ UNCHANGED h_run
             /\ next_track
          \* extract() raised: the exception leaves run(), caught at line 292
          \* in a full run and at line 354 in an enrichment-only run
          \/ /\ entry.best_crop_path # NoCrop /\ supported
             /\ AttributeError \in extracted
             /\ NoFault
             /\ pc' = IF attr_mode = "full" THEN "pv_summary" ELSE "pv_finally"
             /\ h_run' = Mark(Mark(h_run, "extract_raised"), "attr_raised")
             /\ UNCHANGED <<track_events, detected_objects, attributed_count,
                            attr_queue>>
    /\ UNCHANGED <<genvars, run_no, video_files, video_idx, shutdown_requested,
                   current_video, status, sampler_pos, track_states, last_second,
                   frame_dets, saved_obj, generated_events, attr_mode,
                   has_total_frames, h_recovered>>
    /\ UNCHANGED session_ok
    /\ UNCHANGED extvars
    /\ UNCHANGED <<idxvars, trkvars, quadvars, embed_model, h_reset, tracker_ids>>

\* AttributeProcessor.run lines 109-244, one pass of the loop: skip a track
\* without crop (or whose crop file is gone) or of an unsupported class;
\* otherwise extract, rewrite and re-embed its events, update its best
\* detection, commit
AttrTrack ==
    /\ pc = "attr_track"
    /\ LET e == Head(attr_queue)
           entry == track_events[e]
           supported == entry.object_class \in VehicleClasses \cup PersonClasses
           rest == Tail(attr_queue)
           extracted == {IF entry.object_class \in VehicleClasses
                         THEN VehicleExtract(c, r) ELSE PersonExtract(c, r) :
                            c \in CropOutcomes, r \in ServiceReplies}
           next_track == /\ attr_queue' = rest
                         /\ pc' = IF rest = <<>> THEN "attr_return" ELSE "attr_track"
       IN \/ /\ entry.best_crop_path = NoCrop \/ ~supported
             /\ NoFault
             /\ UNCHANGED <<track_events, detected_objects, attributed_count, h_run>>
             /\ next_track
          \/ /\ entry.best_crop_path # NoCrop
             /\ UseFault          \* os.path.exists(crop_path) is false
             /\ h_run' = Mark(h_run, "crop_missing")
             /\ UNCHANGED <<track_events, detected_objects, attributed_count>>
             /\ next_track
          \/ /\ entry.best_crop_path # NoCrop /\ supported
             /\ \E attrs \in extracted \cap ExtractResults :
                \E failed \in SUBSET EventsOfTrackId(track_events, current_video,
                                                     entry.track_id) :
                   /\ Cardinality(failed) <= faults_left
                   /\ faults_left' = faults_left - Cardinality(failed)
                   /\ track_events' = EnrichTrackEvents(track_events, current_video,
                                                        e, attrs, failed)
                   /\ detected_objects' = UpdateBestDetectedObject(detected_objects,
                                              current_video, entry.track_id, attrs)
             /\ attributed_count' = attributed_count + 1
             /\ UNCHANGED h_run
             /\ next_track
          \* extract() raised: the exception leaves run(), caught at line 292
          \* in a full run and at line 354 in an enrichment-only run
          \/ /\ entry.best_crop_path # NoCrop /\ supported
             /\ AttributeError \in extracted
             /\ NoFault
             /\ pc' = IF attr_mode = "full" THEN "pv_summary" ELSE "pv_finally"
             /\ h_run' = Mark(Mark(h_run, "extract_raised"), "attr_raised")
             /\ UNCHANGED <<track_events, detected_objects, attributed_count,
                            attr_queue>>
    /\ UNCHANGED <<genvars, run_no, video_files, video_idx, shutdown_requested,
                   current_video, status, sampler_pos, track_states, last_second,
                   frame_dets, saved_obj, generated_events, attr_mode,
                   has_total_frames, h_recovered>>
    /\ UNCHANGED session_ok
    /\ UNCHANGED extvars
    /\ UNCHANGED <<idxvars, trkvars, quadvars, embed_model, h_reset, tracker_ids>>

\* AttributeProcessor.run raising in an enrichment-only run with no except
\* clause at line 354, the session still usable
AttrRaise_Uncaught ==
    /\ pc \in {"attr_begin", "attr_track"}
    /\ UseFault
    /\ session_ok' = session_ok
    /\ pc' = IF attr_mode = "full" THEN "pv_summary" ELSE "pv_except"
    /\ h_run' = Mark(Mark([h_run EXCEPT !.faulted = TRUE], "session_failed"),
                     "attr_raised")
    /\ UNCHANGED <<genvars, run_no, video_files, video_idx, shutdown_requested,
                   current_video, dbvars, locvars, has_total_frames, h_recovered>>
    /\ UNCHANGED extvars
    /\ UNCHANGED <<idxvars, trkvars, quadvars, embed_model, h_reset, tracker_ids>>

\* AttributeProcessor.run raises because a query, flush or commit fails (the
\* session is left inactive): caught at line 292 in a full run, at line 354
\* in an enrichment-only run
AttrRaise ==
    /\ pc \in {"attr_begin", "attr_track"}
    /\ UseFault
    /\ session_ok' = FALSE
    /\ pc' = IF attr_mode = "full" THEN "pv_summary" ELSE "pv_finally"
    /\ h_run' = Mark(Mark([h_run EXCEPT !.faulted = TRUE], "session_failed"),
                     "attr_raised")
    /\ UNCHANGED <<genvars, run_no, video_files, video_idx, shutdown_requested,
                   current_video, dbvars, locvars, has_total_frames, h_recovered>>
    /\ UNCHANGED extvars
    /\ UNCHANGED <<idxvars, trkvars, quadvars, embed_model, h_reset, tracker_ids>>

\* run returned: repo.mark_6b_completed(video_file, attributed)
\* (lines 286 and 341; the summary of lines 348-353 changes no modelled state)
AttrReturn ==
    /\ pc = "attr_return"
    /\ status' = Mark6bCompleted(status, current_video, attributed_count)
    /\ pc' = IF attr_mode = "full" THEN "pv_summary" ELSE "pv_finally"
    /\ h_run' = Mark(h_run, "attr_returned")
    /\ UNCHANGED <<genvars, run_no, video_files, video_idx, shutdown_requested,
                   current_video, detected_objects, track_events, locvars, envvars,
                   h_recovered>>
    /\ UNCHANGED session_ok
    /\ UNCHANGED extvars
    /\ UNCHANGED <<idxvars, trkvars, quadvars, embed_model, h_reset, tracker_ids>>

\* PvSummary without the shutdown test of line 301
PvSummary_IgnoreShutdown ==
    /\ pc = "pv_summary"
    /\ pc' = "pv_complete"
    /\ UNCHANGED <<genvars, run_no, video_files, video_idx, shutdown_requested,
                   current_video, dbvars, locvars, envvars, histvars>>
    /\ UNCHANGED session_ok
    /\ UNCHANGED extvars
    /\ UNCHANGED <<idxvars, trkvars, quadvars, embed_model, h_reset, tracker_ids>>

\* lines 301-311: if not shutdown: summarize_from_tracks (its failure is caught)
PvSummary ==
    /\ pc = "pv_summary"
    /\ pc' = IF shutdown_requested THEN "pv_finally" ELSE "pv_complete"
    /\ UNCHANGED <<genvars, run_no, video_files, video_idx, shutdown_requested,
                   current_video, dbvars, locvars, envvars, histvars>>
    /\ UNCHANGED session_ok
    /\ UNCHANGED extvars
    /\ UNCHANGED <<idxvars, trkvars, quadvars, embed_model, h_reset, tracker_ids>>

\* line 313: repo.mark_completed(video_file)
PvMarkCompleted ==
    /\ pc = "pv_complete"
    /\ IF session_ok
       THEN /\ status' = MarkCompleted(status, current_video)
            /\ pc' = "pv_finally"
            /\ h_run' = Mark(h_run, "completed")
       ELSE /\ pc' = "pv_except"    \* get_status raises on the inactive session
            /\ h_run' = Mark(h_run, "escaped")
            /\ UNCHANGED status
    /\ UNCHANGED <<genvars, run_no, video_files, video_idx, shutdown_requested,
                   current_video, detected_objects, track_events, locvars, envvars,
                   h_recovered>>
    /\ UNCHANGED session_ok
    /\ UNCHANGED extvars
    /\ UNCHANGED <<idxvars, trkvars, quadvars, embed_model, h_reset, tracker_ids>>

\* lines 321-326: except Exception: repo.mark_failed(video_file, str(e));
\* on an inactive session mark_failed raises in its turn and the new
\* exception leaves _process_video
PvExcept ==
    /\ pc = "pv_except"
    /\ IF session_ok
       THEN /\ status' = MarkFailed(status, current_video, ErrException)
            /\ pc' = "pv_finally"
            /\ UNCHANGED h_run
       ELSE /\ pc' = "pv_finally_raise"
            /\ h_run' = Mark(h_run, "mark_failed_raised")
            /\ UNCHANGED status
    /\ UNCHANGED <<genvars, run_no, video_files, video_idx, shutdown_requested,
                   current_video, detected_objects, track_events, locvars, envvars,
                   h_recovered>>
    /\ UNCHANGED session_ok
    /\ UNCHANGED extvars
    /\ UNCHANGED <<idxvars, trkvars, quadvars, embed_model, h_reset, tracker_ids>>

\* lines 327-330: finally: close the session, clear _current_db / _current_video;
\* an exception still in flight then leaves run() and main(), which catch nothing
PvFinally ==
    /\ pc \in {"pv_finally", "pv_finally_raise"}
    /\ current_video' = None
    /\ video_idx' = video_idx + 1
    /\ pc' = IF pc = "pv_finally" THEN "run_loop" ELSE "aborted"
    /\ FreshLocals
    /\ UNCHANGED <<genvars, run_no, video_files, shutdown_requested, dbvars, envvars,
                   histvars>>
    /\ UNCHANGED session_ok
    /\ UNCHANGED extvars
    /\ UNCHANGED <<idxvars, trkvars, quadvars, embed_model, h_reset, tracker_ids>>

\* _handle_shutdown: runs between any two steps once the handlers are installed
HandlerInstalled == pc \notin {"off", "boot", "construct", "exited", "aborted"}

HandleShutdown ==
    /\ HandlerInstalled
    /\ UseFault
    /\ shutdown_requested' = TRUE
    /\ status' = IF current_video # None /\ session_ok   \* a raise of mark_failed is caught
                 THEN MarkFailed(status, current_video, ErrSignal) ELSE status
    /\ h_run' = IF current_video # None THEN Mark(h_run, "signal") ELSE h_run
    /\ UNCHANGED <<genvars, pc, run_no, video_files, video_idx, current_video,
                   detected_objects, track_events, locvars, has_total_frames,
                   h_recovered>>
    /\ UNCHANGED session_ok
    /\ UNCHANGED extvars
    /\ UNCHANGED <<idxvars, trkvars, quadvars, embed_model, h_reset, tracker_ids>>

\* the process dies without running any handler (SIGKILL, power loss)
Crash ==
    /\ pc \notin {"off", "exited", "aborted"}
    /\ UseFault
    /\ pc' = "exited"
    /\ shutdown_requested' = FALSE
    /\ current_video' = None
    /\ video_idx' = 0
    /\ h_run' = NoCall
    /\ FreshLocals
    /\ UNCHANGED <<genvars, run_no, video_files, dbvars, has_total_frames, h_recovered>>
    /\ UNCHANGED session_ok
    /\ UNCHANGED extvars
    /\ UNCHANGED <<idxvars, trkvars, quadvars, embed_model, h_reset, tracker_ids>>

\* the pipeline process is started again
Restart ==
    /\ pc \in {"exited", "aborted"}
    /\ run_no < MaxRuns
    /\ run_no' = run_no + 1
    /\ pc' = "boot"
    /\ shutdown_requested' = FALSE
    /\ current_video' = None
    /\ video_idx' = 0
    /\ h_recovered' = {}
    /\ h_run' = NoCall
    /\ UNCHANGED <<genvars, video_files, dbvars, locvars, envvars>>
    /\ UNCHANGED session_ok
    /\ UNCHANGED extvars
    /\ UNCHANGED <<idxvars, trkvars, quadvars, embed_model, h_reset, tracker_ids>>

\* routes.py DELETE /status/{video_filename}, while the pipeline process is
\* not running: 404 and no change when the row is absent, else the row is
\* deleted and the delete committed. The operator's request is one of the
\* events of the environment that faults_left counts.
ResetProcessingStatus ==
    /\ pc \in {"exited", "aborted"}
    /\ run_no < MaxRuns
    /\ h_reset = {}
    /\ tracker_ids = {}
    /\ UseFault
    /\ \E v \in AllVideos :
          /\ status[v] # NoStatusRow
          /\ status' = [status EXCEPT ![v] = NoStatusRow]
          /\ h_reset' = {v}
    /\ UNCHANGED <<genvars, extvars, idxvars, trkvars, quadvars, embed_model, tracker_ids>>
    /\ UNCHANGED <<procvars, session_ok, detected_objects, track_events, locvars,
                   has_total_frames, histvars>>

Next ==
    \/ MainRecover \/ MainRun \/ RunLoop
    \/ PvEnter \/ PvIsCompleted \/ PvCompleted \/ PvOpenSampler \/ PvMarkRunning
    \/ PvNextFrame \/ PvDetect \/ PvSaveDetection \/ PvIndexDetection
    \/ PvGenerateEvents \/ PvSaveEvent \/ PvIndexEvent \/ PvPhase6b
    \/ AttrBegin \/ AttrTrack \/ AttrRaise \/ AttrReturn
    \/ PvSummary \/ PvMarkCompleted \/ PvExcept \/ PvFinally
    \/ HandleShutdown \/ Crash \/ Restart \/ ResetProcessingStatus

Spec == Init /\ [][Next]_vars

\* ------------------------------------------------------------------------
\* Direct calls of EventGenerator.generate on bounded inputs
\* ------------------------------------------------------------------------
GenSeconds == 0..MaxGenSecond
GenTrackIds == 1..MaxGenTracks

\* a track aggregate for track id tid with arbitrary first/last seen
GenTrack(tid, first, last) ==
    TrackState(tid, IF tid = 1 THEN "person" ELSE "car", first, last, 1, first, 50, NoCrop, <<first>>)

\* the aggregates _update_track_state can build: first seen no later than last seen
GenTracks ==
    {GenTrack(t, p[1], p[2]) :
        t \in GenTrackIds, p \in {q \in GenSeconds \X GenSeconds : q[1] <= q[2]}}

\* one call with times in half seconds: thresholds 10 s and 3 s, 20 s of
\* video, a car seen from 0.5 s to 1.0 s and then a person seen from 2.0 s
\* to 14.0 s (the dict holds the tracks in the order they were first seen)
Scenario ==
    [dwell_threshold |-> 2 * DwellThresholdSeconds,
     exit_gap |-> 2 * ExitGapSeconds,
     video_duration |-> 40,
     track_states |->
        <<TrackState(2, "car", 1, 2, 2, 1, 90, NoCrop, <<1, 2>>),
          TrackState(1, "person", 4, 28, 3, 4, 90, NoCrop, <<4, 16, 28>>)>>]

\* dicts keyed by track id: every sequence of aggregates with distinct keys
GenMaps ==
    UNION {
        { s \in [1..n -> GenTracks] :
            \A i, j \in 1..n : i # j => s[i].track_id # s[j].track_id }
        : n \in 0..MaxGenTracks }

\* no process: the orchestrator's state at rest
ProcessOff ==
    /\ pc = "off"
    /\ run_no = 0
    /\ video_files = <<>>
    /\ video_idx = 0
    /\ shutdown_requested = FALSE
    /\ current_video = None
    /\ session_ok = TRUE
    /\ status = [v \in AllVideos |-> NoStatusRow]
    /\ sampler_pos = 0
    /\ track_states = <<>>
    /\ last_second = 0
    /\ frame_dets = <<>>
    /\ saved_obj = 0
    /\ generated_events = <<>>
    /\ attr_mode = None
    /\ attr_queue = <<>>
    /\ attributed_count = 0
    /\ has_total_frames = FALSE
    /\ h_recovered = {}
    /\ h_reset = {}
    /\ tracker_ids = {}
    /\ h_run = NoCall

PipelineOff ==
    /\ ProcessOff
    /\ detected_objects = <<>>
    /\ track_events = <<>>
    /\ faults_left = 0

GenInit ==
    /\ PipelineOff
    /\ ExtOff
    /\ IdxOff
    /\ TrkOff
    /\ QuadOff
    /\ embed_model = EmbedModelSetting
    /\ g_pc = "input"
    /\ \/ /\ g_states \in GenMaps
          /\ g_duration \in 0..(MaxGenSecond + 1)
          /\ g_dwell \in {1, 2}
          /\ g_gap \in {0, 1}
       \/ /\ g_states = Scenario.track_states
          /\ g_duration = Scenario.video_duration
          /\ g_dwell = Scenario.dwell_threshold
          /\ g_gap = Scenario.exit_gap
    /\ g_events = <<>>

GenerateCall ==
    /\ g_pc = "input"
    /\ g_events' = Generate(g_states, g_duration, g_dwell, g_gap)
    /\ g_pc' = "done"
    /\ UNCHANGED <<g_states, g_duration, g_dwell, g_gap>>
    /\ UNCHANGED <<procvars, dbvars, locvars, envvars, histvars>>
    /\ UNCHANGED session_ok
    /\ UNCHANGED extvars
    /\ UNCHANGED <<idxvars, trkvars, quadvars, embed_model, h_reset, tracker_ids>>

GenNext == GenerateCall

SpecGen == GenInit /\ [][GenNext]_vars

\* ------------------------------------------------------------------------
\* Direct calls of the extractors: every crop and every service outcome
\* ------------------------------------------------------------------------
ExtractInit ==
    /\ PipelineOff
    /\ GenOff
    /\ IdxOff
    /\ TrkOff
    /\ QuadOff
    /\ embed_model = EmbedModelSetting
    /\ x_pc = "input"
    /\ x_class \in {"car", "person"}
    /\ x_crop \in CropOutcomes
    /\ x_reply \in ServiceReplies
    /\ x_result = None

ExtractCall ==
    /\ x_pc = "input"
    /\ x_result' = IF x_class \in VehicleClasses
                   THEN VehicleExtract(x_crop, x_reply)
                   ELSE PersonExtract(x_crop, x_reply)
    /\ x_pc' = "done"
    /\ UNCHANGED <<x_class, x_crop, x_reply>>
    /\ UNCHANGED <<genvars, procvars, dbvars, locvars, envvars, histvars>>
    /\ UNCHANGED session_ok
    /\ UNCHANGED <<idxvars, trkvars, quadvars, embed_model, h_reset, tracker_ids>>

ExtractNext == ExtractCall

SpecExtract == ExtractInit /\ [][ExtractNext]_vars

\* ------------------------------------------------------------------------
\* Direct calls of ObjectIndexer on tables of records, indexed or not
\* ------------------------------------------------------------------------
\* a record with the embedding row an earlier index call wrote for it
Indexed(row) == [row EXCEPT !.embedding = <<EmbeddingRow(row.rag_text)>>]

\* detected_objects tables: up to two records, each indexed or not
IdxObjectTables ==
    LET r1 == DetectedObjectRow("a.mp4", Detection("person", 60, 1), 1)
        r2 == DetectedObjectRow("a.mp4", Detection("car", 40, NoTrack), 11)
    IN {<<>>} \cup {<<a>> : a \in {r1, Indexed(r1)}}
              \cup {<<a, b>> : a \in {r1, Indexed(r1)}, b \in {r2, Indexed(r2)}}

\* track_events tables: up to two records, each indexed or not
IdxEventTables ==
    LET evs == Generate(<<TrackState(1, "person", 1, 11, 2, 11, 90, NoCrop, <<1, 11>>)>>,
                        11, DwellThresholdSeconds, ExitGapSeconds)
        e1 == TrackEventRow("a.mp4", evs[1])
        e2 == TrackEventRow("a.mp4", evs[2])
    IN {<<>>} \cup {<<a>> : a \in {e1, Indexed(e1)}}
              \cup {<<a, b>> : a \in {e1, Indexed(e1)}, b \in {e2, Indexed(e2)}}

IndexInit ==
    /\ ProcessOff
    /\ GenOff
    /\ ExtOff
    /\ TrkOff
    /\ QuadOff
    /\ embed_model \in EmbedModels
    /\ detected_objects \in IdxObjectTables
    /\ track_events \in IdxEventTables
    /\ faults_left \in 0..MaxFaults
    /\ i_pc = "ready"
    /\ i_ops = 0
    /\ i_calls = 0
    /\ i_last = NoIndexOp

\* the records of a table the sweep query selects: no embedding row
Unindexed(rows) == {i \in 1..Len(rows) : rows[i].embedding = <<>>}

\* the table after the sweep has indexed the first k records it selected
IndexFirst(rows, k) ==
    [i \in 1..Len(rows) |->
        IF i \in Unindexed(rows)
           /\ Cardinality({j \in Unindexed(rows) : j <= i}) <= k
        THEN IndexRow(rows, i)[i] ELSE rows[i]]

\* what a direct index call leaves unchanged
IndexFrame ==
    /\ i_pc' = i_pc
    /\ i_ops' = i_ops + 1
    /\ UNCHANGED <<genvars, extvars, trkvars, quadvars, embed_model, h_reset, tracker_ids, procvars,
                   session_ok, status, locvars, has_total_frames, histvars>>

\* index_detected_object(obj) on record i of detected_objects
IndexDetectedObjectCall ==
    /\ i_pc = "ready" /\ i_ops < MaxIndexOps
    /\ \E i \in 1..Len(detected_objects) :
          \/ /\ NoFault
             /\ detected_objects' = IndexRow(detected_objects, i)
             /\ i_calls' = i_calls + (IF detected_objects[i].embedding # <<>> THEN 0 ELSE 1)
             /\ i_last' = [op |-> "index_detected_object", id |-> i,
                           returned |-> IndexRow(detected_objects, i)[i].embedding,
                           raised |-> FALSE]
          \/ /\ detected_objects[i].embedding = <<>>      \* embed() raises
             /\ UseFault
             /\ i_calls' = i_calls + 1
             /\ i_last' = [op |-> "index_detected_object", id |-> i,
                           returned |-> <<>>, raised |-> TRUE]
             /\ UNCHANGED detected_objects
    /\ UNCHANGED track_events
    /\ IndexFrame

\* index_track_event(event) on record i of track_events
IndexTrackEventCall ==
    /\ i_pc = "ready" /\ i_ops < MaxIndexOps
    /\ \E i \in 1..Len(track_events) :
          \/ /\ NoFault
             /\ track_events' = IndexRow(track_events, i)
             /\ i_calls' = i_calls + (IF track_events[i].embedding # <<>> THEN 0 ELSE 1)
             /\ i_last' = [op |-> "index_track_event", id |-> i,
                           returned |-> IndexRow(track_events, i)[i].embedding,
                           raised |-> FALSE]
          \/ /\ track_events[i].embedding = <<>>          \* embed() raises
             /\ UseFault
             /\ i_calls' = i_calls + 1
             /\ i_last' = [op |-> "index_track_event", id |-> i,
                           returned |-> <<>>, raised |-> TRUE]
             /\ UNCHANGED track_events
    /\ UNCHANGED detected_objects
    /\ IndexFrame

\* index_all_unindexed_objects: index every selected record in turn; the
\* first embed() that raises ends the sweep
IndexAllUnindexedObjects ==
    /\ i_pc = "ready" /\ i_ops < MaxIndexOps
    /\ LET n == Cardinality(Unindexed(detected_objects))
       IN \/ /\ NoFault
             /\ detected_objects' = IndexFirst(detected_objects, n)
             /\ i_calls' = i_calls + n
             /\ i_last' = [op |-> "index_all_unindexed_objects", id |-> n,
                           returned |-> <<>>, raised |-> FALSE]
          \/ \E k \in 0..(n - 1) :
                /\ UseFault
                /\ detected_objects' = IndexFirst(detected_objects, k)
                /\ i_calls' = i_calls + k + 1
                /\ i_last' = [op |-> "index_all_unindexed_objects", id |-> n,
                              returned |-> <<>>, raised |-> TRUE]
    /\ UNCHANGED track_events
    /\ IndexFrame

\* index_all_unindexed_events
IndexAllUnindexedEvents ==
    /\ i_pc = "ready" /\ i_ops < MaxIndexOps
    /\ LET n == Cardinality(Unindexed(track_events))
       IN \/ /\ NoFault
             /\ track_events' = IndexFirst(track_events, n)
             /\ i_calls' = i_calls + n
             /\ i_last' = [op |-> "index_all_unindexed_events", id |-> n,
                           returned |-> <<>>, raised |-> FALSE]
          \/ \E k \in 0..(n - 1) :
                /\ UseFault
                /\ track_events' = IndexFirst(track_events, k)
                /\ i_calls' = i_calls + k + 1
                /\ i_last' = [op |-> "index_all_unindexed_events", id |-> n,
                              returned |-> <<>>, raised |-> TRUE]
    /\ UNCHANGED detected_objects
    /\ IndexFrame

IndexNext ==
    \/ IndexDetectedObjectCall \/ IndexTrackEventCall
    \/ IndexAllUnindexedObjects \/ IndexAllUnindexedEvents

SpecIndex == IndexInit /\ [][IndexNext]_vars

\* ------------------------------------------------------------------------
\* Properties
\* ------------------------------------------------------------------------
CountEvents(events, tid, type) ==
    Cardinality({i \in 1..Len(events) :
                    events[i].track_id = tid /\ events[i].event_type = type})

GenKeys == {g_states[i].track_id : i \in 1..Len(g_states)}

JustReturned == pc = "run_loop" /\ h_run.path # "none"
ReturnedVideo == video_files[video_idx - 1]

\* position of the first occurrence of a milestone in a call's trace, 0 if none
Pos(h, m) ==
    IF Reached(h, m) THEN CHOOSE i \in 1..Len(h.trace) :
                              h.trace[i] = m /\ \A k \in 1..(i - 1) : h.trace[k] # m
    ELSE 0

EntryRows(v, tid) ==
    {i \in 1..Len(track_events) :
        /\ track_events[i].video_filename = v
        /\ track_events[i].track_id = tid
        /\ track_events[i].event_type = "entry"}

TrackIdsSeen == {track_events[i].track_id : i \in 1..Len(track_events)}

C3_SkippedIsTerminal ==
    h_run.start = "skipped" =>
        /\ h_run.path # "full"
        /\ ~Reached(h_run, "running")
        /\ ~Reached(h_run, "loop")

\* positions of _process_video at which a detection, vision-language or
\* embedding call is made or a detection / event row is written
CallPcs == {"pv_detect", "pv_save_det", "pv_index_det", "pv_save_event",
            "pv_index_event", "attr_begin", "attr_track", "attr_return"}

\* C4: a call of _process_video that began with the row completed and the
\* enrichment flag true never reaches a detection, vision-language or
\* embedding call, never starts enrichment, and leaves the detection and
\* event tables as they were when it began.
C4_CompletedAndEnrichedIsNoOp ==
    (h_run.start = "completed" /\ h_run.start_6b) =>
        /\ pc \notin CallPcs
        /\ ~Reached(h_run, "attr_begin")
        /\ ~Reached(h_run, "generated")
        /\ Len(detected_objects) = h_run.n_obj
        /\ Len(track_events) = h_run.n_ev
        /\ frame_dets = <<>> /\ generated_events = <<>> /\ attr_queue = <<>>

\* such a call has returned, having marked the video skipped
C4_Witness ==
    /\ JustReturned
    /\ h_run.start = "completed" /\ h_run.start_6b
    /\ h_run.path = "skip"
    /\ Len(track_events) > 0
    /\ status[ReturnedVideo].status = "skipped"

\* C5: a call of _process_video that began with the row completed and the
\* enrichment flag false runs enrichment and nothing else: no frame loop, no
\* new detection or event row, status still completed when it returns, the
\* flag true if AttributeProcessor.run returned and false if it raised.
C5_EnrichmentOnly ==
    (JustReturned /\ h_run.start = "completed" /\ ~h_run.start_6b) =>
        /\ Reached(h_run, "attr_begin")
        /\ ~Reached(h_run, "loop")
        /\ Len(detected_objects) = h_run.n_obj
        /\ Len(track_events) = h_run.n_ev
        /\ status[ReturnedVideo].status = "completed"
        /\ Reached(h_run, "attr_returned") => status[ReturnedVideo].phase_6b_completed
        /\ Reached(h_run, "attr_raised") => ~status[ReturnedVideo].phase_6b_completed

SignalInWindow(h) ==
    \E i, j \in 1..Len(h.trace) :
        /\ i < j
        /\ h.trace[i] = "running"
        /\ h.trace[j] = "signal"
        /\ \A k \in 1..j : h.trace[k] # "completed"

C9_CleanRunCompletes ==
    (/\ JustReturned
     /\ h_run.start \in {"absent", "failed"}
     /\ ~h_run.faulted
     /\ ~Reached(h_run, "signal")
     /\ ~shutdown_requested) =>
        /\ Reached(h_run, "running")
        /\ status[ReturnedVideo].status = "completed"

\* the last milestone of AttributeProcessor.run in a call, 0 if it never ended
AttrEnd(h) ==
    IF Reached(h, "attr_returned") THEN Pos(h, "attr_returned") ELSE Pos(h, "attr_raised")

CallEnded == pc \in {"run_loop", "aborted"} /\ h_run.path # "none"

\* the rows of the videos other than v are as they were when the call began
OtherRowsUnchanged(v) == \A w \in AllVideos \ {v} : status[w] = h_run.status0[w]

FailureMarks ==
    {"sampler_failed", "detect_failed", "write_failed", "index_failed", "session_failed"}

\* the only failures the call has met so far are of the kinds in S
OnlyFailures(h, S) ==
    \A i \in 1..Len(h.trace) : h.trace[i] \in FailureMarks => h.trace[i] \in S

\* detection rows written by the current call for the frame at second s
RowsOfFrame(s) ==
    {i \in (h_run.n_obj + 1)..Len(detected_objects) :
        /\ detected_objects[i].video_filename = current_video
        /\ detected_objects[i].frame_second_offset = s}

DetectFailures(h) == Cardinality({i \in 1..Len(h.trace) : h.trace[i] = "detect_failed"})

GeneratedRowsKept ==
    /\ Reached(h_run, "events_saved")
    /\ Len(track_events) > h_run.n_ev
    /\ \A i \in (h_run.n_ev + 1)..Len(track_events) :
          track_events[i].video_filename = ReturnedVideo

CallVideo == IF current_video # None THEN current_video ELSE ReturnedVideo

\* C16: in an enrichment-only call on a completed video that no signal
\* interrupted, whatever enrichment does (returns, raises, loses a crop or an
\* embedding call) the video's status stays completed and its error_count
\* stays what it was, during the call and after it has ended.
C16_EnrichmentOnlyKeepsCompleted ==
    (/\ h_run.path = "6b_only"
     /\ ~Reached(h_run, "signal")
     /\ (current_video # None \/ CallEnded)) =>
        /\ status[CallVideo].status = "completed"
        /\ status[CallVideo].error_count = h_run.status0[CallVideo].error_count

\* an enrichment-only call whose AttributeProcessor.run raised has ended
C16_Witness ==
    /\ CallEnded
    /\ h_run.path = "6b_only"
    /\ Reached(h_run, "attr_raised")
    /\ ~Reached(h_run, "signal")
    /\ status[ReturnedVideo].status = "completed"

\* C17: when FrameSampler could not be constructed for a video, the row is
\* never running in that call, and the call (no signal having arrived)
\* returns to run()'s loop with the row failed with the exception's message
\* and error_count incremented, without having entered the frame loop or
\* written a detection or event row.
C17_ConfigErrorFailsAtStart ==
    /\ (Reached(h_run, "sampler_failed") /\ (current_video # None \/ CallEnded)) =>
          /\ ~Reached(h_run, "running")
          /\ status[CallVideo].status # "running"
    /\ (CallEnded /\ Reached(h_run, "sampler_failed") /\ ~Reached(h_run, "signal")) =>
          /\ pc = "run_loop"
          /\ status[ReturnedVideo].status = "failed"
          /\ status[ReturnedVideo].last_error = ErrException
          /\ status[ReturnedVideo].error_count =
                h_run.status0[ReturnedVideo].error_count + 1
          /\ ~Reached(h_run, "loop")
          /\ Len(detected_objects) = h_run.n_obj
          /\ Len(track_events) = h_run.n_ev

\* a.mp4's sampler failed, the call returned with the row failed, and b.mp4
\* is still to be processed
C17_Witness ==
    /\ pc = "run_loop"
    /\ h_run.path # "none"
    /\ Reached(h_run, "sampler_failed")
    /\ status[ReturnedVideo].status = "failed"
    /\ video_idx <= Len(video_files)
    /\ ~shutdown_requested

\* response texts in which _extract_json finds no JSON value
UnparsableReplies == {"empty", "prose", "fenced_list"}

\* C18: extract() of either extractor never raises, whatever the crop and
\* the service outcome (a response that parses as JSON but is not an object
\* included), and returns the all-unknown default when the image is
\* unreadable, the service timed out or failed, or the response is unparsable.
C18_ExtractNeverRaises ==
    x_pc = "done" =>
        /\ x_result \in ExtractResults
        /\ (\/ x_crop = "unreadable"
            \/ x_reply \in {"timeout", "http_error"}
            \/ x_reply \in UnparsableReplies) => x_result = AttrsUnknown

\* the step of AttributeProcessor.run that commits a track (line 235-236)
TrackCommitted == pc = "attr_track" /\ attributed_count' = attributed_count + 1

\* every event row of track tid of video v carries the attributes attrs and
\* an enriched text stating the row's own event type and those attributes
TrackEnriched(rows, v, tid, attrs) ==
    \A i \in EventsOfTrackId(rows, v, tid) :
        /\ rows[i].attributes = attrs
        /\ rows[i].rag_text[1] = "enriched"
        /\ rows[i].rag_text[2] = rows[i].event_type
        /\ rows[i].rag_text[9] = attrs

\* C19: when AttributeProcessor.run commits a track, every event row of the
\* track (entry, dwell, exit) carries the same attributes and a text rebuilt
\* from them with the row's own event type; none keeps its template text.
C19_TrackEventsEnrichedTogether ==
    [][TrackCommitted =>
          \E attrs \in ExtractResults :
              TrackEnriched(track_events', current_video,
                            track_events[Head(attr_queue)].track_id, attrs)]_vars

\* a track with an entry, a dwell and an exit row has been committed
C19_Witness ==
    /\ pc \in {"attr_track", "attr_return"}
    /\ attributed_count > 0
    /\ \E tid \in TrackIdsSeen :
          /\ \A t \in EventTypes :
                \E i \in EventsOfTrackId(track_events, current_video, tid) :
                    track_events[i].event_type = t
          /\ \A i \in EventsOfTrackId(track_events, current_video, tid) :
                track_events[i].attributes # None

\* C20: when AttributeProcessor.run commits a track, whether its embedding
\* calls succeeded or failed, every event row of the track has exactly one
\* embedding row.
C20_OneEmbeddingPerEnrichedEvent ==
    [][TrackCommitted =>
          \A i \in EventsOfTrackId(track_events', current_video,
                                   track_events[Head(attr_queue)].track_id) :
              Len(track_events'[i].embedding) = 1]_vars

\* C21: in every state, each embedding row of a track event was computed
\* from the text the event row holds now.
C21_EmbeddingMatchesText ==
    \A i \in 1..Len(track_events) :
        \A k \in 1..Len(track_events[i].embedding) :
            track_events[i].embedding[k].text = track_events[i].rag_text

\* an event indexed with its template text was enriched and re-embedded
C21_Witness ==
    \E i \in 1..Len(track_events) :
        /\ track_events[i].attributes # None
        /\ track_events[i].rag_text[1] = "enriched"
        /\ Len(track_events[i].embedding) = 1
        /\ track_events[i].embedding[1].text = track_events[i].rag_text

\* the table and the record a direct index_detected_object / index_track_event
\* step is called on
IndexStep == i_ops' = i_ops + 1 /\ i_last'.op \in {"index_detected_object", "index_track_event"}
IndexTarget ==
    IF i_last'.op = "index_detected_object" THEN detected_objects[i_last'.id]
    ELSE track_events[i_last'.id]

\* a sweep step
SweepStep ==
    i_ops' = i_ops + 1
    /\ i_last'.op \in {"index_all_unindexed_objects", "index_all_unindexed_events"}

C23_ModelNameIsModelUsed ==
    [][(IndexStep /\ i_calls' = i_calls + 1 /\ ~i_last'.raised) =>
          /\ Len(i_last'.returned) = 1
          /\ i_last'.returned[1].model_name = i_last'.returned[1].model_used]_vars


\* ------------------------------------------------------------------------
\* Direct calls of _update_track_state: a stream of tracked detections is
\* aggregated one detection at a time, the aggregates are handed to
\* generate(), and the same stream is then put through both a second time.
\* ------------------------------------------------------------------------
StreamVideo == "a.mp4"

\* sampled timestamps increase along the stream
StreamSecond(k) == 6 * k - 5

\* tracked detections (the call is made for detections with a track id only)
StreamDetections ==
    {Detection(IF tid = 1 THEN "person" ELSE "car", conf, tid) :
        conf \in {40, 60, 90}, tid \in {1, 2}}

\* what the frame loop can be handed: the detector labels every box on its
\* own, so a track that was a car can come back as a truck
FeedDetections == StreamDetections \cup {Detection("truck", 60, 2)}

\* the crop_path local of the frame loop, the crop.size test included
CropSaved(v, det, seconds, nonempty) ==
    IF nonempty THEN CropOf(v, det, seconds) ELSE NoCrop

StreamEntry(det, seconds, nonempty) ==
    [det |-> det, seconds |-> seconds, nonempty |-> nonempty,
     crop_path |-> CropSaved(StreamVideo, det, seconds, nonempty)]

\* one pass of the frame loop over a stream, starting from the given dict
RECURSIVE AggregateFrom(_, _)
AggregateFrom(states, stream) ==
    IF stream = <<>> THEN states
    ELSE LET e == Head(stream) IN
         AggregateFrom(UpdateTrackState(states, e.det, e.seconds,
                           CropSaved(StreamVideo, e.det, e.seconds, e.nonempty)),
                       Tail(stream))

\* last_second after the loop
StreamLastSecond(stream) == IF stream = <<>> THEN 0 ELSE stream[Len(stream)].seconds

TrackInit ==
    /\ PipelineOff
    /\ GenOff
    /\ ExtOff
    /\ IdxOff
    /\ QuadOff
    /\ embed_model = EmbedModelSetting
    /\ t_pc = "feeding"
    /\ t_stream = <<>>
    /\ t_states = <<>>
    /\ t_events = <<>>
    /\ t_replay = <<>>

TrackRest ==
    /\ UNCHANGED <<genvars, extvars, idxvars, quadvars, embed_model, h_reset, tracker_ids>>
    /\ UNCHANGED <<procvars, session_ok, dbvars, locvars, envvars, histvars>>

\* one frame-loop iteration body for one tracked detection, with ties replacing
TrackFeed_TiesReplace ==
    /\ t_pc = "feeding"
    /\ Len(t_stream) < MaxStream
    /\ \E det \in FeedDetections, nonempty \in BOOLEAN :
          LET e == StreamEntry(det, StreamSecond(Len(t_stream) + 1), nonempty)
              i == TrackIndex(t_states, det.track_id)
              n == UpdateTrackState(t_states, det, e.seconds, e.crop_path)
          IN /\ t_stream' = Append(t_stream, e)
             /\ t_states' = IF i # 0 /\ det.confidence = t_states[i].best_confidence
                            THEN [n EXCEPT ![i].best_second = e.seconds]
                            ELSE n
    /\ UNCHANGED <<t_pc, t_events, t_replay>>
    /\ TrackRest

\* one frame-loop iteration body for one tracked detection
TrackFeed ==
    /\ t_pc = "feeding"
    /\ Len(t_stream) < MaxStream
    /\ \E det \in FeedDetections, nonempty \in BOOLEAN :
          LET e == StreamEntry(det, StreamSecond(Len(t_stream) + 1), nonempty)
          IN /\ t_stream' = Append(t_stream, e)
             /\ t_states' = UpdateTrackState(t_states, det, e.seconds, e.crop_path)
    /\ UNCHANGED <<t_pc, t_events, t_replay>>
    /\ TrackRest

\* after the loop: generate() on the aggregates
TrackGenerate ==
    /\ t_pc = "feeding"
    /\ t_states # <<>>
    /\ t_events' = Generate(t_states, StreamLastSecond(t_stream),
                            DwellThresholdSeconds, ExitGapSeconds)
    /\ t_pc' = "generated"
    /\ UNCHANGED <<t_stream, t_states, t_replay>>
    /\ TrackRest

\* a second pass that would start from the aggregates of the first
TrackReplay_KeepsAggregates ==
    /\ t_pc = "generated"
    /\ LET again == AggregateFrom(t_states, t_stream)
       IN t_replay' = <<[states |-> again,
                         events |-> Generate(again, StreamLastSecond(t_stream),
                                             DwellThresholdSeconds, ExitGapSeconds)]>>
    /\ t_pc' = "replayed"
    /\ UNCHANGED <<t_stream, t_states, t_events>>
    /\ TrackRest

\* the same stream once more: track_states starts as {} in every
\* _process_video call and the generator keeps nothing between calls
TrackReplay ==
    /\ t_pc = "generated"
    /\ LET again == AggregateFrom(<<>>, t_stream)
       IN t_replay' = <<[states |-> again,
                         events |-> Generate(again, StreamLastSecond(t_stream),
                                             DwellThresholdSeconds, ExitGapSeconds)]>>
    /\ t_pc' = "replayed"
    /\ UNCHANGED <<t_stream, t_states, t_events>>
    /\ TrackRest

TrackNext == TrackFeed \/ TrackGenerate \/ TrackReplay

SpecTrack == TrackInit /\ [][TrackNext]_vars

\* the stream entries of one track, by position in the stream
EntriesOf(tid) == {k \in 1..Len(t_stream) : t_stream[k].det.track_id = tid}

MaxConfidence(tid) ==
    CHOOSE c \in {t_stream[k].det.confidence : k \in EntriesOf(tid)} :
        \A k \in EntriesOf(tid) : t_stream[k].det.confidence <= c

\* the first entry of the track that reaches the track's maximum
FirstBest(tid) ==
    CHOOSE k \in EntriesOf(tid) :
        /\ t_stream[k].det.confidence = MaxConfidence(tid)
        /\ \A j \in EntriesOf(tid) :
              t_stream[j].det.confidence = MaxConfidence(tid) => k <= j

BestIsFirstMaximum ==
    \A i \in 1..Len(t_states) :
        LET s == t_states[i] IN
        /\ EntriesOf(s.track_id) # {}
        /\ s.best_confidence = MaxConfidence(s.track_id)
        /\ s.best_second = t_stream[FirstBest(s.track_id)].seconds

BestNeverDecreases ==
    \A i \in 1..Len(t_states) :
        /\ i <= Len(t_states')
        /\ t_states'[i].track_id = t_states[i].track_id
        /\ t_states'[i].best_confidence >= t_states[i].best_confidence

\* C24: for every track and every sequence of _update_track_state calls,
\* best_confidence is the maximum confidence seen so far for the track and
\* never decreases, and best_second is the timestamp of the first detection
\* that reached that maximum (a later tie does not replace it).
C24_BestIsFirstMaximum == [] BestIsFirstMaximum /\ [][BestNeverDecreases]_vars

\* a track whose maximum was reached twice: the later tie did not replace
C24_Witness ==
    \E i \in 1..Len(t_states) :
        LET tid == t_states[i].track_id IN
        /\ \E j, k \in EntriesOf(tid) :
              /\ j < k
              /\ t_stream[j].det.confidence = MaxConfidence(tid)
              /\ t_stream[k].det.confidence = MaxConfidence(tid)
              /\ t_states[i].best_second = t_stream[j].seconds
        /\ \E j \in EntriesOf(tid) : t_stream[j].det.confidence < MaxConfidence(tid)

\* C25: best_crop_path is the crop path (possibly absent) of the detection
\* that set the current best_confidence and best_second, also when that
\* detection has no saved crop while an earlier detection had one.
C25_BestCropIsOfBestDetection ==
    \A i \in 1..Len(t_states) :
        t_states[i].best_crop_path =
            t_stream[FirstBest(t_states[i].track_id)].crop_path

QuadLabels ==
    {"center", "top-left", "top-center", "top-right", "mid-left", "mid-right",
     "bottom-left", "bottom-center", "bottom-right"}

\* box centres offered, in percent of the frame side: a grid plus the
\* values next to the four thresholds
QuadCentres == {5 * k : k \in 1..19} \cup {32, 33, 34, 39, 41, 65, 66, 67, 69, 71}

\* frames: the box coordinates scale with the side
QuadSides == {100, 200}

\* cx = (x1 + x2) / 2 / frame_width compared with 0.33 and 0.66, in integers:
\* cx < 0.33 iff 100 * (x1 + x2) < 33 * 2 * frame_width
HZone(x1, x2, frame_width) ==
    IF 100 * (x1 + x2) < 33 * 2 * frame_width THEN "left"
    ELSE IF 100 * (x1 + x2) < 66 * 2 * frame_width THEN "center"
    ELSE "right"

\* cy = (y1 + y2) / 2 / frame_height compared with 0.4 and 0.7
VZone(y1, y2, frame_height) ==
    IF 10 * (y1 + y2) < 4 * 2 * frame_height THEN "top"
    ELSE IF 10 * (y1 + y2) < 7 * 2 * frame_height THEN "mid"
    ELSE "bottom"

\* the label built with the horizontal zone first
GetFrameQuadrant_HorizontalFirst(x1, y1, x2, y2, frame_width, frame_height) ==
    LET h_zone == HZone(x1, x2, frame_width)
        v_zone == VZone(y1, y2, frame_height)
    IN IF h_zone = "center" /\ v_zone = "mid" THEN "center"
       ELSE IF h_zone = "left" /\ v_zone = "top" THEN "left-top"
       ELSE IF h_zone = "center" /\ v_zone = "top" THEN "center-top"
       ELSE IF h_zone = "right" /\ v_zone = "top" THEN "right-top"
       ELSE IF h_zone = "left" /\ v_zone = "mid" THEN "left-mid"
       ELSE IF h_zone = "right" /\ v_zone = "mid" THEN "right-mid"
       ELSE IF h_zone = "left" THEN "left-bottom"
       ELSE IF h_zone = "center" THEN "center-bottom"
       ELSE "right-bottom"

\* get_frame_quadrant: f"{v_zone}-{h_zone}", "center" for (center, mid)
GetFrameQuadrant(x1, y1, x2, y2, frame_width, frame_height) ==
    LET h_zone == HZone(x1, x2, frame_width)
        v_zone == VZone(y1, y2, frame_height)
    IN IF h_zone = "center" /\ v_zone = "mid" THEN "center"
       ELSE IF h_zone = "left" /\ v_zone = "top" THEN "top-left"
       ELSE IF h_zone = "center" /\ v_zone = "top" THEN "top-center"
       ELSE IF h_zone = "right" /\ v_zone = "top" THEN "top-right"
       ELSE IF h_zone = "left" /\ v_zone = "mid" THEN "mid-left"
       ELSE IF h_zone = "right" /\ v_zone = "mid" THEN "mid-right"
       ELSE IF h_zone = "left" THEN "bottom-left"
       ELSE IF h_zone = "center" THEN "bottom-center"
       ELSE "bottom-right"

\* a box of side 8 percent around the centre (cx, cy) percent
QuadBox(cx, cy, side) ==
    <<((cx - 4) * side) \div 100, ((cy - 4) * side) \div 100,
      ((cx + 4) * side) \div 100, ((cy + 4) * side) \div 100>>

QuadInit ==
    /\ PipelineOff
    /\ GenOff
    /\ ExtOff
    /\ IdxOff
    /\ TrkOff
    /\ embed_model = EmbedModelSetting
    /\ q_pc = "input"
    /\ \E cx \in QuadCentres, cy \in QuadCentres, side \in QuadSides :
          /\ q_box = QuadBox(cx, cy, side)
          /\ q_frame = <<side, side>>
    /\ q_label = None

QuadrantCall ==
    /\ q_pc = "input"
    /\ q_label' = GetFrameQuadrant(q_box[1], q_box[2], q_box[3], q_box[4],
                                   q_frame[1], q_frame[2])
    /\ q_pc' = "done"
    /\ UNCHANGED <<q_box, q_frame>>
    /\ UNCHANGED <<genvars, extvars, idxvars, trkvars, embed_model, h_reset, tracker_ids>>
    /\ UNCHANGED <<procvars, session_ok, dbvars, locvars, envvars, histvars>>

QuadNext == QuadrantCall

SpecQuadrant == QuadInit /\ [][QuadNext]_vars

\* the centre of the box, doubled, and the doubled frame sides
QuadCx2 == q_box[1] + q_box[3]
QuadCy2 == q_box[2] + q_box[4]

\* the label the stated thresholds give, as the pair of its two parts
QuadVertical ==
    IF 10 * QuadCy2 < 8 * q_frame[2] THEN "top"
    ELSE IF 10 * QuadCy2 < 14 * q_frame[2] THEN "mid" ELSE "bottom"

QuadHorizontal ==
    IF 100 * QuadCx2 < 66 * q_frame[1] THEN "left"
    ELSE IF 100 * QuadCx2 < 132 * q_frame[1] THEN "center" ELSE "right"

QuadJoined(v_zone, h_zone) ==
    CHOOSE l \in QuadLabels :
        \/ v_zone = "mid" /\ h_zone = "center" /\ l = "center"
        \/ /\ ~(v_zone = "mid" /\ h_zone = "center")
           /\ l = (CASE v_zone = "top" /\ h_zone = "left" -> "top-left"
                     [] v_zone = "top" /\ h_zone = "center" -> "top-center"
                     [] v_zone = "top" /\ h_zone = "right" -> "top-right"
                     [] v_zone = "mid" /\ h_zone = "left" -> "mid-left"
                     [] v_zone = "mid" /\ h_zone = "right" -> "mid-right"
                     [] v_zone = "bottom" /\ h_zone = "left" -> "bottom-left"
                     [] v_zone = "bottom" /\ h_zone = "center" -> "bottom-center"
                     [] v_zone = "bottom" /\ h_zone = "right" -> "bottom-right")

\* C27: get_frame_quadrant maps every box to exactly one of the nine labels:
\* left / center / right by cx < 0.33, cx < 0.66, top / mid / bottom by
\* cy < 0.4, cy < 0.7, 'center' for (center, mid) and vertical-horizontal
\* otherwise; on a 100x100 frame a box centred at (50,55) is 'center', at
\* (10,10) 'top-left' and at (90,10) 'top-right'.
C27_QuadrantLabels ==
    q_pc = "done" =>
        /\ q_label \in QuadLabels
        /\ q_label = QuadJoined(QuadVertical, QuadHorizontal)
        /\ q_frame = <<100, 100>> =>
              /\ (QuadCx2 = 100 /\ QuadCy2 = 110) => q_label = "center"
              /\ (QuadCx2 = 20 /\ QuadCy2 = 20) => q_label = "top-left"
              /\ (QuadCx2 = 180 /\ QuadCy2 = 20) => q_label = "top-right"

\* the box centred at (90,10) of a 100x100 frame was labelled
C27_Witness ==
    /\ q_pc = "done"
    /\ q_frame = <<100, 100>>
    /\ QuadCx2 = 180
    /\ QuadCy2 = 20
    /\ q_label = "top-right"


\* the event types generate() returned for one track, in order
RECURSIVE TypesOfTrack(_, _)
TypesOfTrack(events, tid) ==
    IF events = <<>> THEN <<>>
    ELSE (IF Head(events).track_id = tid THEN <<Head(events).event_type>> ELSE <<>>)
         \o TypesOfTrack(Tail(events), tid)

ScenarioCalled ==
    /\ g_pc = "done"
    /\ g_states = Scenario.track_states
    /\ g_duration = Scenario.video_duration
    /\ g_dwell = Scenario.dwell_threshold
    /\ g_gap = Scenario.exit_gap

\* C28: with a dwell threshold of 10 s, an exit gap of 3 s and 20 s of video,
\* a person track seen from 2.0 s to 14.0 s and a car track seen from 0.5 s
\* to 1.0 s give exactly five events: entry, dwell, exit for the person and
\* entry, exit (no dwell) for the car.
C28_ScenarioGivesFiveEvents ==
    ScenarioCalled =>
        /\ Len(g_events) = 5
        /\ TypesOfTrack(g_events, 1) = <<"entry", "dwell", "exit">>
        /\ TypesOfTrack(g_events, 2) = <<"entry", "exit">>
        /\ \A i \in 1..Len(g_events) :
              g_events[i].object_class = IF g_events[i].track_id = 1 THEN "person" ELSE "car"

\* generate() has returned for the scenario
C28_Witness == ScenarioCalled /\ Len(g_events) = 5


\* C29: after an operator deleted a video's status row, whatever its status
\* was, the next call for the video that meets no failure and no shutdown
\* request starts without a row, marks the video running and runs the frame
\* loop to its end.
C29_ResetVideoIsReprocessed ==
    (/\ JustReturned
     /\ h_run.reset
     /\ ~h_run.faulted
     /\ ~Reached(h_run, "signal")
     /\ ~shutdown_requested) =>
        /\ h_run.start = "absent"
        /\ h_run.path = "full"
        /\ Reached(h_run, "running")
        /\ Reached(h_run, "exhausted")


\* the step fetches a frame and hands it to the detector
StartsFrame == pc = "pv_loop" /\ pc' = "pv_detect"

\* the step runs generate() on the aggregates
StartsSynthesis == pc = "pv_events" /\ pc' = "pv_save_event"

\* the step calls AttributeProcessor.run, from the full path or from _run_6b_only
StartsEnrichment == pc # "attr_begin" /\ pc' = "attr_begin"

\* the step of run() that calls _process_video
StartsVideo == pc = "run_loop" /\ pc' = "pv_enter"

\* C30: once the shutdown flag is set, no detection call is started for a
\* later frame of the current video, no event synthesis and no enrichment is
\* started for it, and _process_video is not called for a later video.
C30_NoNewWorkAfterShutdown ==
    [][shutdown_requested =>
          ~(StartsFrame \/ StartsSynthesis \/ StartsEnrichment \/ StartsVideo)]_vars


\* track ids of the detection rows the current call has written for its video
TracksDetectedInCall ==
    {detected_objects[i].track_id :
        i \in {k \in (h_run.n_obj + 1)..Len(detected_objects) :
                  detected_objects[k].video_filename = current_video}} \ {NoTrack}

\* the event rows the current call has written
EventRowsOfCall == (h_run.n_ev + 1)..Len(track_events)

\* the call is about to make the first detection call it ever makes
FirstDetectionCall ==
    /\ pc = "pv_detect"
    /\ h_run.bad_frames = {}
    /\ Len(detected_objects) = h_run.n_obj

ResponseTexts ==
    {EmptyText} \cup
    {ResponseText(w, f, s) :
        w \in JsonKinds \cup {JSONDecodeError},
        f \in DictKinds \cup {NoMatch, JSONDecodeError},
        s \in DictKinds \cup {NoMatch, JSONDecodeError}}

ParseInit ==
    /\ PipelineOff
    /\ GenOff
    /\ IdxOff
    /\ TrkOff
    /\ QuadOff
    /\ embed_model = EmbedModelSetting
    /\ x_pc = "input"
    /\ x_class = None
    /\ x_crop = None
    /\ x_reply \in ResponseTexts
    /\ x_result = None

ParseCall ==
    /\ x_pc = "input"
    /\ x_result' = ExtractJson(x_reply)
    /\ x_pc' = "done"
    /\ UNCHANGED <<x_class, x_crop, x_reply>>
    /\ UNCHANGED <<genvars, procvars, dbvars, locvars, envvars, histvars>>
    /\ UNCHANGED session_ok
    /\ UNCHANGED <<idxvars, trkvars, quadvars, embed_model, h_reset, tracker_ids>>

ParseNext == ParseCall

SpecParse == ParseInit /\ [][ParseNext]_vars

WholeParsed == ~x_reply.empty /\ x_reply.whole # JSONDecodeError
FencedParsed == ~x_reply.empty /\ x_reply.fenced \notin {NoMatch, JSONDecodeError}
SpanParsed == ~x_reply.empty /\ x_reply.span \notin {NoMatch, JSONDecodeError}

\* the result is that of the first attempt, in the order whole text, fenced
\* block, brace span, that parsed
FirstSuccessWins ==
    /\ WholeParsed => x_result = Loads(x_reply.whole)
    /\ (~WholeParsed /\ FencedParsed) => x_result = x_reply.fenced
    /\ (~WholeParsed /\ ~FencedParsed /\ SpanParsed) => x_result = x_reply.span

\* C32 as stated: the first attempt that parses gives the result, and the
\* result is 'no data' only when all three attempts failed or the text is
\* empty.
C32_NoDataOnlyWhenAllFail ==
    x_pc = "done" =>
        /\ FirstSuccessWins
        /\ x_result = None => (x_reply.empty \/ ~(WholeParsed \/ FencedParsed \/ SpanParsed))

\* C32: the first attempt that parses gives the result, a later attempt
\* counts only when every earlier one failed, and the result is 'no data'
\* exactly when the text is empty, all three attempts failed, or the whole
\* text parsed to the JSON value null.
C32_FirstSuccessfulStrategy ==
    x_pc = "done" =>
        /\ FirstSuccessWins
        /\ x_result = None <=>
              \/ x_reply.empty
              \/ ~(WholeParsed \/ FencedParsed \/ SpanParsed)
              \/ (WholeParsed /\ x_reply.whole = "null")

\* the whole text failed, a fenced block parsed, and the brace span would
\* have given another object
C32_Witness ==
    /\ x_pc = "done"
    /\ ~WholeParsed
    /\ FencedParsed
    /\ SpanParsed
    /\ x_reply.span # x_reply.fenced
    /\ x_result = x_reply.fenced


\* ------------------------------------------------------------------------
\* Direct calls of AttributeProcessor.run from _run_6b_only, on the tables a
\* completed video's detection stream left behind
\* ------------------------------------------------------------------------
\* every stream of tracked detections of the given lengths
RECURSIVE StreamsOfLength(_)
StreamsOfLength(n) ==
    IF n = 0 THEN {<<>>}
    ELSE {Append(s, StreamEntry(det, StreamSecond(n), nonempty)) :
             s \in StreamsOfLength(n - 1), det \in StreamDetections, nonempty \in BOOLEAN}

\* the detected_objects rows of a stream, saved and indexed
ObjectsOfStream(stream) ==
    [k \in 1..Len(stream) |->
        Indexed([DetectedObjectRow(StreamVideo, stream[k].det, stream[k].seconds)
                    EXCEPT !.crop_path = stream[k].crop_path])]

\* the track_events rows of a stream, saved and indexed
EventsOfStream(stream) ==
    LET evs == Generate(AggregateFrom(<<>>, stream), StreamLastSecond(stream),
                        DwellThresholdSeconds, ExitGapSeconds)
    IN [k \in 1..Len(evs) |-> Indexed(TrackEventRow(StreamVideo, evs[k]))]

EnrichInit ==
    /\ GenOff
    /\ ExtOff
    /\ IdxOff
    /\ TrkOff
    /\ QuadOff
    /\ embed_model = EmbedModelSetting
    /\ pc = "attr_begin"
    /\ run_no = 1
    /\ video_files = <<StreamVideo>>
    /\ video_idx = 1
    /\ shutdown_requested = FALSE
    /\ current_video = StreamVideo
    /\ session_ok = TRUE
    /\ status = MarkCompleted(MarkRunning([v \in AllVideos |-> NoStatusRow], StreamVideo),
                              StreamVideo)
    /\ \E stream \in UNION {StreamsOfLength(n) : n \in 1..MaxStream} :
          /\ detected_objects = ObjectsOfStream(stream)
          /\ track_events = EventsOfStream(stream)
    /\ sampler_pos = 0
    /\ track_states = <<>>
    /\ last_second = 0
    /\ frame_dets = <<>>
    /\ saved_obj = 0
    /\ generated_events = <<>>
    /\ attr_mode = "6b_only"
    /\ attr_queue = <<>>
    /\ attributed_count = 0
    /\ has_total_frames = TRUE
    /\ faults_left \in 0..MaxFaults
    /\ h_recovered = {}
    /\ h_reset = {}
    /\ tracker_ids = {}
    /\ h_run = Mark([NoCall EXCEPT !.path = "6b_only", !.start = "completed",
                                   !.n_obj = Len(detected_objects),
                                   !.n_ev = Len(track_events),
                                   !.status0 = status], "attr_begin")

EnrichNext == AttrBegin \/ AttrTrack \/ AttrRaise \/ AttrReturn

SpecEnrich == EnrichInit /\ [][EnrichNext]_vars

\* the entry event the next pass of the loop visits
NextEntry == track_events[Head(attr_queue)]

\* a pass of the loop ended and the loop goes on or ends
LoopPassed ==
    /\ pc = "attr_track"
    /\ pc' \in {"attr_track", "attr_return"}
    /\ attr_queue' = Tail(attr_queue)

\* the pass found os.path.exists(crop_path) false
CropFileMissing ==
    /\ Len(h_run'.trace) = Len(h_run.trace) + 1
    /\ h_run'.trace[Len(h_run'.trace)] = "crop_missing"

\* the pass met one of the three skip conditions
SkippedPass ==
    /\ LoopPassed
    /\ \/ NextEntry.best_crop_path = NoCrop
       \/ CropFileMissing
       \/ NextEntry.object_class \notin VehicleClasses \cup PersonClasses

\* C33: a pass of the enrichment loop over a track whose entry event has no
\* best crop path, whose crop file does not exist, or whose class is neither
\* a vehicle nor a person class changes no event row, no detection row and
\* no embedding row, and does not count the track as attributed.
C33_SkippedTrackUnchanged ==
    [][SkippedPass =>
          /\ track_events' = track_events
          /\ detected_objects' = detected_objects
          /\ attributed_count' = attributed_count]_vars

\* a track without a saved crop was skipped after another track was enriched
C33_Witness ==
    /\ pc \in {"attr_track", "attr_return"}
    /\ attributed_count = 1
    /\ \E i \in 1..Len(track_events) :
          /\ track_events[i].event_type = "entry"
          /\ track_events[i].best_crop_path = NoCrop
          /\ track_events[i].attributes = None
          /\ i \notin {attr_queue[k] : k \in 1..Len(attr_queue)}
    /\ \E i \in 1..Len(track_events) : track_events[i].attributes # None


\* the detection rows of track tid of video v
RowsOfTrack(objs, v, tid) ==
    {i \in 1..Len(objs) : objs[i].video_filename = v /\ objs[i].track_id = tid}

\* C34: when AttributeProcessor.run commits a track, the attribute fields
\* of exactly one detection row were written, a row of the track and video
\* with the highest confidence among them; every other detection row is
\* as before, and an extraction whose values are 'unknown' is stored as
\* null, never as the string.
C34_BestDetectionGetsAttributes ==
    [][TrackCommitted =>
          LET tid == NextEntry.track_id
              attrs == track_events'[Head(attr_queue)].attributes
              cand == RowsOfTrack(detected_objects, current_video, tid)
          IN /\ Len(detected_objects') = Len(detected_objects)
             /\ \E b \in cand :
                   /\ \A j \in cand :
                         detected_objects[b].confidence >= detected_objects[j].confidence
                   /\ detected_objects'[b] =
                         [detected_objects[b] EXCEPT
                             !.attrs = IF attrs = AttrsUnknown THEN None ELSE attrs]
                   /\ \A i \in (1..Len(detected_objects)) \ {b} :
                         detected_objects'[i] = detected_objects[i]
             /\ \A i \in 1..Len(detected_objects') :
                   detected_objects'[i].attrs # AttrsUnknown]_vars

\* a committed track with two detection rows of different confidence: the
\* better one carries the attributes, the other none
C34_Witness ==
    /\ pc \in {"attr_track", "attr_return"}
    /\ attributed_count > 0
    /\ \E i, j \in 1..Len(detected_objects) :
          /\ detected_objects[i].track_id = detected_objects[j].track_id
          /\ detected_objects[i].confidence > detected_objects[j].confidence
          /\ detected_objects[i].attrs = AttrsSeen
          /\ detected_objects[j].attrs = None
          /\ detected_objects[j].crop_path # NoCrop

\* ------------------------------------------------------------------------
\* C35
\* ------------------------------------------------------------------------
\* the tracks of video v that have an entry event
TracksWithEntry(rows, v) ==
    {rows[EntryEvents(rows, v)[k]].track_id : k \in 1..Len(EntryEvents(rows, v))}

\* run returned and mark_6b_completed is being called with its result
EnrichmentReturned == pc = "attr_return" /\ pc' \in {"pv_summary", "pv_finally"}

SignalTaken ==
    /\ current_video # None
    /\ Len(h_run'.trace) = Len(h_run.trace) + 1
    /\ h_run'.trace[Len(h_run'.trace)] = "signal"

\* C36: a shutdown signal handled while the current video's call began with
\* the row completed (skip check or enrichment-only run) and the row is
\* still completed leaves the row's status and error_count as they are.
C36_SignalKeepsCompleted ==
    [][(/\ SignalTaken
        /\ h_run.start = "completed"
        /\ status[current_video] # NoStatusRow
        /\ status[current_video].status = "completed") =>
          /\ status'[current_video].status = "completed"
          /\ status'[current_video].error_count = status[current_video].error_count
      ]_vars

\* ------------------------------------------------------------------------
\* EventRepository status methods and recover_stale_jobs called directly, in
\* any order, on the rows of two videos; pc names the last call
\* ------------------------------------------------------------------------
StatusVideos == {"a.mp4", "b.mp4"}
StatusErrors == {ErrException}

StatusInit ==
    /\ PipelineOff
    /\ GenOff
    /\ ExtOff
    /\ IdxOff
    /\ TrkOff
    /\ QuadOff
    /\ embed_model = EmbedModelSetting

StatusRest ==
    /\ UNCHANGED <<genvars, run_no, video_files, video_idx, shutdown_requested,
                   current_video, detected_objects, track_events, locvars,
                   envvars, histvars>>
    /\ UNCHANGED session_ok
    /\ UNCHANGED extvars
    /\ UNCHANGED <<idxvars, trkvars, quadvars, embed_model, h_reset, tracker_ids>>

RepoMarkRunning(v) ==
    /\ status' = MarkRunning(status, v)
    /\ pc' = "mark_running"
    /\ StatusRest

RepoMarkSceneDetected(v) ==
    /\ status' = MarkSceneDetected(status, v)
    /\ pc' = "mark_scene_detected"
    /\ StatusRest

RepoMarkSceneCaptioned(v) ==
    /\ status' = MarkSceneCaptioned(status, v)
    /\ pc' = "mark_scene_captioned"
    /\ StatusRest

RepoMarkCompleted(v) ==
    /\ status' = MarkCompleted(status, v)
    /\ pc' = "mark_completed"
    /\ StatusRest

RepoMarkFailed(v, error) ==
    /\ status[v].error_count < MaxRuns
    /\ status' = MarkFailed(status, v, error)
    /\ pc' = "mark_failed"
    /\ StatusRest

RepoMarkSkipped(v) ==
    /\ status' = MarkSkipped(status, v)
    /\ pc' = "mark_skipped"
    /\ StatusRest

RepoMark6bCompleted(v) ==
    /\ status' = Mark6bCompleted(status, v, 1)
    /\ pc' = "mark_6b_completed"
    /\ StatusRest

RepoRecoverStaleJobs ==
    /\ status' = RecoverStaleJobs(status)
    /\ pc' = "recover_stale_jobs"
    /\ StatusRest

StatusNext ==
    \/ \E v \in StatusVideos : RepoMarkRunning(v)
    \/ \E v \in StatusVideos : RepoMarkSceneDetected(v)
    \/ \E v \in StatusVideos : RepoMarkSceneCaptioned(v)
    \/ \E v \in StatusVideos : RepoMarkCompleted(v)
    \/ \E v \in StatusVideos, error \in StatusErrors : RepoMarkFailed(v, error)
    \/ \E v \in StatusVideos : RepoMarkSkipped(v)
    \/ \E v \in StatusVideos : RepoMark6bCompleted(v)
    \/ RepoRecoverStaleJobs

SpecStatus == StatusInit /\ [][StatusNext]_vars

\* ------------------------------------------------------------------------
\* C37
\* ------------------------------------------------------------------------
\* C37: under any sequence of the status methods and recover_stale_jobs the
\* error_count of a row that exists never decreases; a call of mark_failed
\* leaves the row with error_count one higher than before (one when it
\* creates the row) and with last_error equal to the message it was given.
C37_ErrorCountMonotone ==
    [][/\ \A v \in AllVideos :
             status[v] # NoStatusRow =>
                /\ status'[v] # NoStatusRow
                /\ status'[v].error_count >= status[v].error_count
       /\ \A v \in StatusVideos, error \in StatusErrors :
             RepoMarkFailed(v, error) =>
                /\ status'[v].error_count =
                      (IF status[v] = NoStatusRow THEN 1
                       ELSE status[v].error_count + 1)
                /\ status'[v].last_error = error
      ]_vars

\* a row failed twice, then marked running, completed and enriched, still
\* counts its two failures
C37_Witness ==
    /\ pc = "mark_6b_completed"
    /\ \E v \in StatusVideos :
          /\ status[v].status = "completed"
          /\ status[v].phase_6b_completed
          /\ status[v].last_error = None
          /\ status[v].error_count = 2

\* ------------------------------------------------------------------------
\* C38
\* ------------------------------------------------------------------------
\* the positions of the stream at which track tid was observed
ObservationsOf(stream, tid) == {k \in 1..Len(stream) : stream[k].det.track_id = tid}

FirstObservation(stream, tid) ==
    CHOOSE k \in ObservationsOf(stream, tid) :
        \A j \in ObservationsOf(stream, tid) : k <= j

\* C38: after every update each track aggregate has first_seen <= last_seen
\* and frame_count = length of all_seconds >= 1, its first_seen and
\* object_class are those of the track's first observation, and every track
\* observed so far in the frame loop still has its aggregate.
C38_AggregateInvariants ==
    /\ \A i \in 1..Len(t_states) :
          LET s == t_states[i]
              seen == ObservationsOf(t_stream, s.track_id)
          IN /\ s.first_seen <= s.last_seen
             /\ s.frame_count = Len(s.all_seconds)
             /\ s.frame_count >= 1
             /\ seen # {}
             /\ s.frame_count = Cardinality(seen)
             /\ s.first_seen = t_stream[FirstObservation(t_stream, s.track_id)].seconds
             /\ s.object_class =
                   t_stream[FirstObservation(t_stream, s.track_id)].det.object_class
    /\ \A k \in 1..Len(t_stream) : TrackIndex(t_states, t_stream[k].det.track_id) # 0

\* a track first seen as a car and later labelled truck, observed three times
C38_Witness ==
    \E i \in 1..Len(t_states) :
        /\ t_states[i].object_class = "car"
        /\ t_states[i].frame_count = 3
        /\ t_states[i].first_seen < t_states[i].last_seen
        /\ \E k \in 1..Len(t_stream) :
              /\ t_stream[k].det.track_id = t_states[i].track_id
              /\ t_stream[k].det.object_class = "truck"

\* ------------------------------------------------------------------------
\* C39
\* ------------------------------------------------------------------------
\* every detection the detector reports for video v comes without a track id
AllUntracked(v) ==
    /\ \E i \in 1..Len(FrameSeconds(v)) : DetectorOutput(v, i) # <<>>
    /\ \A i \in 1..Len(FrameSeconds(v)) : TrackedIds(DetectorOutput(v, i)) = {}

\* the rows of detections without a track id
UntrackedRows(objs, v) ==
    {i \in 1..Len(objs) : objs[i].video_filename = v /\ objs[i].track_id = NoTrack}

\* C39: a detection without a track id never has an aggregate, a saved crop
\* or an event; a call for a video whose detections are all untracked, met
\* by no failure and no shutdown request, returns with the detections
\* persisted and indexed, the video completed, no event of the video and
\* the enrichment flag false.
C39_UntrackedDetections ==
    /\ \A i \in 1..Len(track_states) : track_states[i].track_id # NoTrack
    /\ \A i \in 1..Len(track_events) : track_events[i].track_id # NoTrack
    /\ \A i \in 1..Len(detected_objects) :
          detected_objects[i].track_id = NoTrack =>
             detected_objects[i].crop_path = NoCrop
    /\ (/\ JustReturned
        /\ h_run.start = "absent"
        /\ AllUntracked(ReturnedVideo)
        /\ ~h_run.faulted
        /\ ~Reached(h_run, "signal")
        /\ ~shutdown_requested) =>
          /\ \E i \in UntrackedRows(detected_objects, ReturnedVideo) :
                detected_objects[i].embedding # <<>>
          /\ \A i \in 1..Len(track_events) :
                track_events[i].video_filename # ReturnedVideo
          /\ status[ReturnedVideo].status = "completed"
          /\ ~status[ReturnedVideo].phase_6b_completed
====
